---------------------------- MODULE Spec2Model ----------------------------
(***************************************************************************)
(* A model of pydantic-sql-bridge: the schema generator                    *)
(* (pydantic_first.py), the schema parser (sql_first.py), the query        *)
(* builder and sync writer (read_write.py) and the naming helpers          *)
(* (utils.py).                                                             *)
(*                                                                         *)
(* Identifiers (class names, table names, field and column names) are      *)
(* sequences of one-character strings, so that the code's string           *)
(* operations (endswith, indexing, f-string concatenation, split,          *)
(* capitalize) are computed character by character.                        *)
(***************************************************************************)
EXTENDS Integers, Sequences, FiniteSets, Bags, TLC

VARIABLES
    db,       \* the database behind the cursor: table name -> table
    call,     \* the last call made on the cursor and what it did
    scopes,   \* cursor(): one record per `with cursor(...)` scope
    gen,      \* generate_sql / create_models_from_sql: input and output
    view      \* create_models_from_sql on tables plus one view

vars == <<db, call, scopes, gen, view>>

----------------------------------------------------------------------------
(* Bounds of the model.                                                    *)

\* Longest list of objects handed to write().
MaxModels == 2
\* Number of `with cursor(...)` scopes that are followed.
NScopes == 3

\* The field values objects hold.
Values == {0, 1}

----------------------------------------------------------------------------
(* Generic sequence helpers.                                               *)

Range(s) == {s[i] : i \in DOMAIN s}

RECURSIVE Concat(_)
\* ''.join(parts) for a sequence of sequences
Concat(parts) ==
    IF parts = <<>> THEN <<>> ELSE Head(parts) \o Concat(Tail(parts))

\* s.endswith(suffix)
EndsWith(s, suffix) ==
    /\ Len(s) >= Len(suffix)
    /\ SubSeq(s, Len(s) - Len(suffix) + 1, Len(s)) = suffix

\* s.startswith(prefix)
startswith(s, prefix) ==
    /\ Len(s) >= Len(prefix)
    /\ SubSeq(s, 1, Len(prefix)) = prefix

\* s.removeprefix(prefix)
removeprefix(s, prefix) ==
    IF startswith(s, prefix) THEN SubSeq(s, Len(prefix) + 1, Len(s)) ELSE s

\* [x for x in s if Test(x)]
Filter(s, Test(_)) == SelectSeq(s, Test)

\* [F(x) for x in s]
Map(s, F(_)) == [i \in DOMAIN s |-> F(s[i])]

\* any(x == v for x in s)
InSeq(v, s) == \E i \in DOMAIN s : s[i] = v

\* The sequences over S of length up to n
SeqsUpTo(S, n) == UNION {[1..k -> S] : k \in 0..n}

\* No exception raised (the err of a normal return).
None == "None"

----------------------------------------------------------------------------
(* Identifiers used by the model types below.                              *)

Underscore == <<"_">>
RowSuffix == <<"R", "o", "w">>

n_id == <<"i", "d">>
n_amount == <<"a", "m", "o", "u", "n", "t">>
n_body == <<"b", "o", "d", "y">>
n_tx == <<"t", "x">>
n_a == <<"a">>
n_name == <<"n", "a", "m", "e">>
n_score == <<"s", "c", "o", "r", "e">>
n_first == <<"f", "i", "r", "s", "t">>
n_second == <<"s", "e", "c", "o", "n", "d">>
n_main == <<"m", "a", "i", "n">>

----------------------------------------------------------------------------
(* Model types: what the code reads off a pydantic class.  `name` is       *)
(* __name__, `query_name` the class attribute of that name (NoAttr when    *)
(* the class has none), `id` the __id__ tuple (NoAttr when the class has   *)
(* none),                                                                  *)
(* `fields` the ordered __fields__: each with its name, its type_ (a       *)
(* primitive type, or the key of another model type for a nested model)    *)
(* and whether the annotation is Optional[...] (type_ is then the inner    *)
(* type).                                                                  *)

Field(name, type, optional) == [name |-> name, type |-> type, optional |-> optional]

\* An attribute the class may lack: <<>> when hasattr(...) is False, else <<v>>.
NoAttr == <<>>
Attr(v) == <<v>>

ModelType(name, query_name, id, fields) ==
    [name |-> name,
     has_query_name |-> query_name # NoAttr,
     query_name |-> IF query_name # NoAttr THEN query_name[1] ELSE <<>>,
     has_id |-> id # NoAttr,
     id |-> IF id # NoAttr THEN id[1] ELSE <<>>,
     fields |-> fields]

\* The keys of Models
ModelKeys ==
    {"Tx", "Note", "TxRow", "Account", "Pair", "Ledger", "Memo", "Typo", "Stub",
     "Flag", "Named", "ById", "Bank",
     "First", "Second", "Nested", "Flat", "Mixed", "Owner", "OwnerFlat", "Short",
     "ShortFlat"}

Models ==
    [ Tx      |-> ModelType(<<"T", "x">>, NoAttr, Attr(<<n_id>>),
                    << Field(n_id, "int", FALSE), Field(n_amount, "float", FALSE) >>),
      Note    |-> ModelType(<<"N", "o", "t", "e">>, NoAttr, NoAttr,
                    << Field(n_body, "str", FALSE) >>),
      TxRow   |-> ModelType(<<"T", "x", "R", "o", "w">>, NoAttr, Attr(<<n_id>>),
                    << Field(n_id, "int", FALSE) >>),
      Account |-> ModelType(<<"A", "c", "c", "o", "u", "n", "t">>, NoAttr, Attr(<<n_id>>),
                    << Field(n_id, "int", FALSE), Field(n_tx, "Tx", FALSE) >>),
      Pair    |-> ModelType(<<"P", "a", "i", "r">>, NoAttr, Attr(<<n_a, <<"b">>>>),
                    << Field(n_a, "int", FALSE), Field(<<"b">>, "str", FALSE) >>),
      Ledger  |-> ModelType(<<"L", "e", "d", "g", "e", "r">>, NoAttr, Attr(<<n_id>>),
                    << Field(n_id, "int", FALSE), Field(n_a, "Pair", FALSE) >>),
      Memo    |-> ModelType(<<"M", "e", "m", "o">>, NoAttr, Attr(<<n_id>>),
                    << Field(n_id, "int", FALSE), Field(<<"m", "e", "m", "o">>, "str", TRUE) >>),
      Typo    |-> ModelType(<<"T", "y", "p", "o">>, NoAttr, Attr(<<<<"n", "o", "p", "e">>>>),
                    << Field(n_id, "int", FALSE) >>),
      Stub    |-> ModelType(<<"S", "t", "u", "b">>, NoAttr, Attr(<<n_id>>),
                    << Field(n_id, "int", FALSE), Field(n_body, "Note", FALSE) >>),
      Flag    |-> ModelType(<<"F", "l", "a", "g">>, NoAttr, Attr(<<n_id>>),
                    << Field(n_id, "int", FALSE), Field(<<"f", "l", "a", "g">>, "bool", FALSE) >>),
      Named   |-> ModelType(<<"N", "a", "m", "e", "d", "R", "o", "w">>, Attr(<<"n", "a", "m", "e", "d">>), Attr(<<n_id>>),
                    << Field(n_id, "int", FALSE) >>),
      ById    |-> ModelType(<<"B", "y", "I", "d">>, NoAttr, Attr(<<n_tx>>),
                    << Field(n_id, "int", FALSE), Field(n_tx, "Tx", FALSE) >>),
      Bank    |-> ModelType(<<"B", "a", "n", "k">>, NoAttr, Attr(<<n_id>>),
                    << Field(n_id, "int", FALSE), Field(n_a, "Account", FALSE),
                       Field(n_body, "str", FALSE) >>),
      First   |-> ModelType(<<"F", "i", "r", "s", "t">>, NoAttr, NoAttr,
                    << Field(n_id, "int", FALSE), Field(n_name, "str", FALSE) >>),
      Second  |-> ModelType(<<"S", "e", "c", "o", "n", "d">>, NoAttr, NoAttr,
                    << Field(n_id, "int", FALSE), Field(n_score, "float", FALSE) >>),
      Nested  |-> ModelType(<<"N", "e", "s", "t", "e", "d">>, NoAttr, NoAttr,
                    << Field(n_id, "int", FALSE), Field(n_first, "First", FALSE),
                       Field(n_second, "Second", FALSE) >>),
      Flat    |-> ModelType(<<"F", "l", "a", "t">>, NoAttr, NoAttr,
                    << Field(n_id, "int", FALSE),
                       Field(n_first \o Underscore \o n_id, "int", FALSE),
                       Field(n_first \o Underscore \o n_name, "str", FALSE),
                       Field(n_second \o Underscore \o n_id, "int", FALSE),
                       Field(n_second \o Underscore \o n_score, "float", FALSE) >>),
      Mixed   |-> ModelType(<<"M", "i", "x", "e", "d">>, NoAttr, NoAttr,
                    << Field(n_id, "int", FALSE),
                       Field(n_first \o Underscore \o n_id, "int", FALSE),
                       Field(n_first \o Underscore \o n_name, "str", FALSE),
                       Field(n_second, "Second", FALSE) >>),
      Owner   |-> ModelType(<<"O", "w", "n", "e", "r">>, NoAttr, NoAttr,
                    << Field(n_id, "int", FALSE), Field(n_main, "First", FALSE) >>),
      OwnerFlat |-> ModelType(<<"O", "w", "n", "e", "r", "F", "l", "a", "t">>, NoAttr, NoAttr,
                    << Field(n_id, "int", FALSE),
                       Field(n_main \o Underscore \o n_id, "int", FALSE),
                       Field(n_main \o Underscore \o n_name, "str", FALSE) >>),
      Short   |-> ModelType(<<"S", "h", "o", "r", "t">>, NoAttr, NoAttr,
                    << Field(<<"f">>, "int", FALSE), Field(n_first, "First", FALSE) >>),
      ShortFlat |-> ModelType(<<"S", "h", "o", "r", "t", "F", "l", "a", "t">>, NoAttr, NoAttr,
                    << Field(<<"f">>, "int", FALSE),
                       Field(n_first \o Underscore \o n_id, "int", FALSE),
                       Field(n_first \o Underscore \o n_name, "str", FALSE) >>) ]

\* typ.__fields__ as the set of field names
FieldNames(m) == {m.fields[i].name : i \in DOMAIN m.fields}

\* typ.__fields__[name]
FieldOf(m, name) == m.fields[CHOOSE i \in DOMAIN m.fields : m.fields[i].name = name]

\* issubclass(field.type_, BaseModel) / utils.is_model(field)
is_model(field) == field.type \in ModelKeys

\* utils.get_table_name: the name the query builder and the writer use
get_table_name(m) ==
    IF m.has_query_name THEN m.query_name ELSE m.name

\* pydantic_first.get_table_name: the name the schema generator uses.
\* typ.__name__[-3] is the third character from the end.
gen_get_table_name(m) ==
    IF EndsWith(m.name, RowSuffix) THEN <<m.name[Len(m.name) - 2]>> ELSE m.name

----------------------------------------------------------------------------
(* pydantic_first.py: the schema generator.  A raised exception is a       *)
(* result [err |-> its kind]; err = None is a normal return.               *)

Ok(val) == [err |-> None, val |-> val]
Raise(kind) == [err |-> kind, val |-> None]

translate_type(typ) ==
    CASE typ = "int" -> Ok("integer not null")
      [] typ = "str" -> Ok("text not null")
      [] typ = "float" -> Ok("real not null")
      [] OTHER -> Raise("TypeError: unknown type")

\* The first raised result of a sequence of results, or Ok of their values.
AllOk(results) ==
    IF \E i \in DOMAIN results : results[i].err # None
    THEN results[CHOOSE i \in DOMAIN results :
            /\ results[i].err # None
            /\ \A j \in 1..(i - 1) : results[j].err = None]
    ELSE Ok([i \in DOMAIN results |-> results[i].val])

get_fk_types(m) ==
    IF ~m.has_id THEN Raise("TypeError: no __id__")
    ELSE IF \E i \in DOMAIN m.id : m.id[i] \notin FieldNames(m)
    THEN Raise("TypeError: __id__ not in fields")
    ELSE IF \E i \in DOMAIN m.id : is_model(FieldOf(m, m.id[i]))
    THEN Raise("TypeError: __id__ names a model")
    ELSE AllOk([i \in DOMAIN m.id |-> translate_type(FieldOf(m, m.id[i]).type)])

Column(name, type) == [name |-> name, type |-> type]
PrimaryKey(cols) == [kind |-> "PRIMARY KEY", cols |-> cols]
ForeignKey(cols, table, refs) ==
    [kind |-> "FOREIGN KEY", cols |-> cols, table |-> table, refs |-> refs]

\* A foreign-key column named after the referenced field alone
fk_name_bare(fk_table, name) == name

\* f'{fk_table}_{name}'
fk_name(fk_table, name) == fk_table \o Underscore \o name

\* fk_names = [f'{fk_table}_{name}' for name in field.type_.__id__]
fk_names(fk_table, ref) == [i \in DOMAIN ref.id |-> fk_name(fk_table, ref.id[i])]

\* generate_sql, lines 50-56: the foreign-key columns and the FOREIGN KEY
\* constraint of a nested-model field, given the referenced table's name and
\* the types get_fk_types returned.
gen_fk_columns(ref, fk_table, fk_types) ==
    IF fk_types.err # None THEN fk_types
    ELSE Ok([columns |-> [i \in DOMAIN ref.id |->
                            Column(fk_name(fk_table, ref.id[i]), fk_types.val[i])],
             constraints |-> <<ForeignKey(fk_names(fk_table, ref), fk_table, ref.id)>>])

\* generate_sql, line 58: the column of a field that is no nested model
gen_column(name, typ) ==
    IF typ.err # None THEN typ
    ELSE Ok([columns |-> <<Column(name, typ.val)>>, constraints |-> <<>>])

\* The columns and constraints one field contributes (generate_sql, the body
\* of the loop over model.__fields__).
gen_field(field) ==
    IF is_model(field)
    THEN gen_fk_columns(Models[field.type], gen_get_table_name(Models[field.type]),
                        get_fk_types(Models[field.type]))
    ELSE gen_column(field.name, translate_type(field.type))

\* generate_sql, lines 60-63: the CREATE TABLE statement of a model, given
\* what its fields contribute.
gen_create(m, parts) ==
    IF parts.err # None THEN parts
    ELSE Ok([name |-> gen_get_table_name(m),
             columns |-> Concat([i \in DOMAIN parts.val |-> parts.val[i].columns]),
             constraints |->
                 (IF m.has_id THEN <<PrimaryKey(m.id)>> ELSE <<>>)
                 \o Concat([i \in DOMAIN parts.val |-> parts.val[i].constraints])])

\* One CREATE TABLE statement (generate_sql, the body of the loop over models).
gen_table(m) ==
    IF m.has_id /\ \E i \in DOMAIN m.id : m.id[i] \notin FieldNames(m)
    THEN Raise("TypeError: __id__ not in fields")
    ELSE gen_create(m, AllOk([i \in DOMAIN m.fields |-> gen_field(m.fields[i])]))

\* generate_sql(models): the CREATE TABLE statements, in the order of models.
generate_sql(models) ==
    AllOk([i \in DOMAIN models |-> gen_table(Models[models[i]])])

----------------------------------------------------------------------------
(* The database behind the cursor (sqlite3, called through c.execute and   *)
(* c.executemany).  db maps the name of each created table to              *)
(* [cols, pk, rows]: the column names in order, the PRIMARY KEY columns    *)
(* (<<>> when the table has none) and the rows in rowid order, each a      *)
(* tuple aligned with cols.  Every column generate_sql emits is NOT NULL.  *)

Table(cols, pk, rows) == [cols |-> cols, pk |-> pk, rows |-> rows]

ColIndex(cols, name) == CHOOSE i \in DOMAIN cols : cols[i] = name

\* The values of `names` in `row`
Project(cols, row, names) == [k \in DOMAIN names |-> row[ColIndex(cols, names[k])]]

NoDuplicates(s) == \A i, j \in DOMAIN s : s[i] = s[j] => i = j

\* No two rows agree on the PRIMARY KEY columns.
PkUnique(t) ==
    \/ t.pk = <<>>
    \/ \A i, j \in DOMAIN t.rows :
          Project(t.cols, t.rows[i], t.pk) = Project(t.cols, t.rows[j], t.pk) => i = j

WithTable(d, name, t) ==
    [n \in DOMAIN d \cup {name} |-> IF n = name THEN t ELSE d[n]]

\* The PRIMARY KEY columns among the constraints of a CREATE TABLE
pk_of(constraints) ==
    Concat([i \in DOMAIN constraints |->
               IF constraints[i].kind = "PRIMARY KEY" THEN constraints[i].cols ELSE <<>>])

\* CREATE TABLE name (columns, PRIMARY KEY (pk))
create_table(d, name, names, pk) ==
    IF \/ name \in DOMAIN d
       \/ ~NoDuplicates(names)
       \/ Range(pk) \ Range(names) # {}
    THEN [err |-> "OperationalError", db |-> d]
    ELSE [err |-> None, db |-> WithTable(d, name, Table(names, pk, <<>>))]

\* c.execute of one CREATE TABLE statement of generate_sql
exec_create(d, stmt) ==
    create_table(d, stmt.name, [i \in DOMAIN stmt.columns |-> stmt.columns[i].name],
                 pk_of(stmt.constraints))

RECURSIVE exec_script(_, _, _)
exec_next(r, stmts, done) ==
    IF r.err # None THEN [err |-> r.err, db |-> r.db, stmts |-> done]
    ELSE exec_script(r.db, stmts, done)

\* for create_table in sql.split('\n\n'): c.execute(create_table)
exec_script(d, stmts, done) ==
    IF stmts = <<>> THEN [err |-> None, db |-> d, stmts |-> done]
    ELSE exec_next(exec_create(d, Head(stmts)), Tail(stmts), Append(done, "create"))

\* setup_database, lines 70-71, given what generate_sql returned
setup_run(d, sql) ==
    IF sql.err # None THEN [err |-> sql.err, db |-> d, stmts |-> <<>>]
    ELSE exec_script(d, sql.val, <<>>)

\* setup_database(c, models)
setup_database(d, models) == setup_run(d, generate_sql(models))

\* The rows of a table projected on columns
select_rows(t, columns) == [i \in DOMAIN t.rows |-> Project(t.cols, t.rows[i], columns)]

\* c.execute(f'select {sql_columns} from {table_name}').fetchall()
exec_select(d, table_name, columns) ==
    IF table_name \notin DOMAIN d \/ columns = <<>>
         \/ Range(columns) \ Range(d[table_name].cols) # {}
    THEN Raise("OperationalError")
    ELSE Ok(select_rows(d[table_name], columns))

\* A table with one row replaced or added, or IntegrityError when the PRIMARY
\* KEY would no longer be unique.
checked(t, t2) ==
    IF PkUnique(t2) THEN [err |-> None, table |-> t2]
    ELSE [err |-> "IntegrityError", table |-> t]

\* One INSERT INTO table(fields) VALUES (values): a column left out would be
\* NULL, which NOT NULL forbids; a duplicate PRIMARY KEY is refused.
insert_row(t, fields, values) ==
    IF Range(t.cols) \ Range(fields) # {} THEN [err |-> "IntegrityError", table |-> t]
    ELSE checked(t, [t EXCEPT !.rows =
                        Append(@, [i \in DOMAIN t.cols |->
                                      values[ColIndex(fields, t.cols[i])]])])

\* The row an UPDATE leaves in place of `row`
rewrite(t, row, fields, values, keys, key_values) ==
    IF Project(t.cols, row, keys) = key_values
    THEN [i \in DOMAIN t.cols |->
             IF InSeq(t.cols[i], fields)
             THEN values[ColIndex(fields, t.cols[i])] ELSE row[i]]
    ELSE row

\* One UPDATE table SET fields=values WHERE keys=key_values: every matching
\* row is rewritten; a PRIMARY KEY conflict aborts the statement.
update_rows(t, fields, values, keys, key_values) ==
    checked(t, [t EXCEPT !.rows =
                   [i \in DOMAIN @ |-> rewrite(t, @[i], fields, values, keys, key_values)]])

\* One DELETE FROM table WHERE keys=key_values
delete_rows(t, keys, key_values) ==
    [err |-> None,
     table |-> [t EXCEPT !.rows =
                   Filter(@, LAMBDA row : Project(t.cols, row, keys) # key_values)]]

RECURSIVE insert_many(_, _, _)
RECURSIVE update_many(_, _, _, _)
RECURSIVE delete_many(_, _, _)

insert_next(r, fields, data) ==
    IF r.err # None THEN r ELSE insert_many(r.table, fields, data)

\* c.executemany(INSERT ..., data): the rows before a failing one stay.
insert_many(t, fields, data) ==
    IF data = <<>> THEN [err |-> None, table |-> t]
    ELSE insert_next(insert_row(t, fields, Head(data)), fields, Tail(data))

update_next(r, fields, keys, data) ==
    IF r.err # None THEN r ELSE update_many(r.table, fields, keys, data)

\* c.executemany(UPDATE ..., data): each entry is <<values, key_values>>.
update_many(t, fields, keys, data) ==
    IF data = <<>> THEN [err |-> None, table |-> t]
    ELSE update_next(update_rows(t, fields, Head(data)[1], keys, Head(data)[2]),
                     fields, keys, Tail(data))

delete_next(r, keys, data) ==
    IF r.err # None THEN r ELSE delete_many(r.table, keys, data)

\* c.executemany(DELETE ..., data)
delete_many(t, keys, data) ==
    IF data = <<>> THEN [err |-> None, table |-> t]
    ELSE delete_next(delete_rows(t, keys, Head(data)), keys, Tail(data))

\* A statement naming a column the table lacks fails when it is prepared.
KnowsColumns(t, names) == Range(names) \subseteq Range(t.cols)

----------------------------------------------------------------------------
(* read_write.py: the sync writer.  An object is [type, vals]: the key of  *)
(* its model type and its field values by field name; the value of a       *)
(* nested-model field is an object.  A flattened model (a dict) is the     *)
(* sequence of its <<key, value>> items in insertion order.                *)

Obj(type, vals) == [type |-> type, vals |-> vals]

\* d[key] = value on a dict
DictSet(d, key, value) ==
    IF \E i \in DOMAIN d : d[i][1] = key
    THEN [i \in DOMAIN d |-> IF d[i][1] = key THEN <<key, value>> ELSE d[i]]
    ELSE Append(d, <<key, value>>)

DictKeys(d) == [i \in DOMAIN d |-> d[i][1]]
DictHas(d, key) == \E i \in DOMAIN d : d[i][1] = key
DictGet(d, key) == d[CHOOSE i \in DOMAIN d : d[i][1] = key][2]

RECURSIVE DictSetAll(_, _, _)
\* for k, v in zip(keys, values): d[k] = v
DictSetAll(d, keys, values) ==
    IF keys = <<>> THEN d
    ELSE DictSetAll(DictSet(d, Head(keys), Head(values)), Tail(keys), Tail(values))

\* flatten_model, lines 106-111: the primary key of a nested model pulled out
flatten_sub(result, submodel, sub) ==
    IF ~sub.has_id THEN Raise("TypeError: cannot flatten")
    ELSE Ok(DictSetAll(result,
                [k \in DOMAIN sub.id |-> fk_name(get_table_name(sub), sub.id[k])],
                [k \in DOMAIN sub.id |-> submodel.vals[sub.id[k]]]))

\* flatten_model, the body of the loop over model.__fields__
flatten_field(model, field, result) ==
    IF ~is_model(field) THEN Ok(DictSet(result, field.name, model.vals[field.name]))
    ELSE flatten_sub(result, model.vals[field.name], Models[model.vals[field.name].type])

RECURSIVE flatten_from(_, _, _, _)
\* flatten_model, the loop over model.__fields__ from field i on
flatten_from(model, fields, i, result) ==
    IF result.err # None \/ i > Len(fields) THEN result
    ELSE flatten_from(model, fields, i + 1, flatten_field(model, fields[i], result.val))

flatten_model(model) == flatten_from(model, Models[model.type].fields, 1, Ok(<<>>))

\* What one call on the cursor did: the exception it raised (None: it
\* returned), the database it leaves, the statements it executed, and the key
\* sets write_dict_models computed (`computed` names those it got to).
Done(err, d, stmts, sets) ==
    [err |-> err, db |-> d, stmts |-> stmts,
     in_db |-> sets.in_db, in_memory |-> sets.in_memory,
     to_insert |-> sets.to_insert, to_update |-> sets.to_update,
     to_delete |-> sets.to_delete, computed |-> sets.computed]

NoSets ==
    [in_db |-> {}, in_memory |-> {}, to_insert |-> {}, to_update |-> {},
     to_delete |-> {}, computed |-> {}]

\* get_id = lambda model: tuple(model[field] for field in compare_on)
get_id(model, compare_on) == [k \in DOMAIN compare_on |-> DictGet(model, compare_on[k])]

\* tuple(model[field] for field in fields)
values_of(model, fields) == [k \in DOMAIN fields |-> DictGet(model, fields[k])]

\* for model in models if get_id(model) in keys
models_in(models, compare_on, keys) ==
    Filter(models, LAMBDA model : get_id(model, compare_on) \in keys)

\* An INSERT phase that executes nothing
insert_phase_skip(t, models, compare_on, fields, to_insert) ==
    [err |-> None, table |-> t]

\* The INSERT phase of write_dict_models (lines 157-166)
insert_phase(t, models, compare_on, fields, to_insert) ==
    IF ~KnowsColumns(t, fields) THEN [err |-> "OperationalError", table |-> t]
    ELSE insert_many(t, fields,
             Map(models_in(models, compare_on, to_insert),
                 LAMBDA model : values_of(model, fields)))

\* An UPDATE phase that leaves the table as it is
update_phase_skip(t, models, compare_on, fields, to_update) ==
    [err |-> None, table |-> t]

\* The UPDATE phase of write_dict_models (lines 169-177)
update_phase(t, models, compare_on, fields, to_update) ==
    IF ~KnowsColumns(t, fields \o compare_on)
    THEN [err |-> "OperationalError", table |-> t]
    ELSE update_many(t, fields, compare_on,
             Map(models_in(models, compare_on, to_update),
                 LAMBDA model : <<values_of(model, fields), values_of(model, compare_on)>>))

\* The DELETE phase of write_dict_models (lines 180-187): the data comes from
\* the in-memory models whose key is in to_delete.
delete_phase(t, models, compare_on, to_delete) ==
    IF ~KnowsColumns(t, compare_on) THEN [err |-> "OperationalError", table |-> t]
    ELSE delete_many(t, compare_on,
             Map(models_in(models, compare_on, to_delete),
                 LAMBDA model : values_of(model, compare_on)))

\* The three key sets of write_dict_models (lines 156, 168, 179)
key_to_insert(in_memory, in_db) == in_memory \ in_db
\* A to_update that takes every in-memory key
key_to_update_all(in_memory, in_db) == in_memory
key_to_update(in_memory, in_db) == in_memory \cap in_db
key_to_delete(in_memory, in_db) == in_db \ in_memory

\* The statements write_dict_models has executed once `n` phases are over
phase_stmts(in_memory, in_db, flags, n) ==
    <<"select">>
    \o (IF n >= 1 /\ key_to_insert(in_memory, in_db) # {} /\ flags.insert
        THEN <<"insert">> ELSE <<>>)
    \o (IF n >= 2 /\ key_to_update(in_memory, in_db) # {} /\ flags.update
        THEN <<"update">> ELSE <<>>)
    \o (IF n >= 3 /\ key_to_delete(in_memory, in_db) # {} /\ flags.delete
        THEN <<"delete">> ELSE <<>>)

\* The key sets write_dict_models has assigned once `n` phases are over
phase_sets(in_memory, in_db, n) ==
    [in_db |-> in_db, in_memory |-> in_memory,
     to_insert |-> key_to_insert(in_memory, in_db),
     to_update |-> IF n >= 2 THEN key_to_update(in_memory, in_db) ELSE {},
     to_delete |-> IF n >= 3 THEN key_to_delete(in_memory, in_db) ELSE {},
     computed |-> {"to_insert"} \cup (IF n >= 2 THEN {"to_update"} ELSE {})
                                \cup (IF n >= 3 THEN {"to_delete"} ELSE {})]

\* The result of write_dict_models when phase n was its last
phase_done(r, d, table_name, in_memory, in_db, flags, n) ==
    Done(r.err, WithTable(d, table_name, r.table),
         phase_stmts(in_memory, in_db, flags, n), phase_sets(in_memory, in_db, n))

\* write_dict_models, lines 179-187, after the UPDATE phase returned r
wdm_delete(r, d, table_name, models, compare_on, flags, in_memory, in_db) ==
    IF r.err # None THEN phase_done(r, d, table_name, in_memory, in_db, flags, 2)
    ELSE phase_done(
             IF key_to_delete(in_memory, in_db) # {} /\ flags.delete
             THEN delete_phase(r.table, models, compare_on, key_to_delete(in_memory, in_db))
             ELSE r,
             d, table_name, in_memory, in_db, flags, 3)

\* write_dict_models, lines 168-177, after the INSERT phase returned r
wdm_update(r, d, table_name, models, compare_on, flags, in_memory, in_db) ==
    IF r.err # None THEN phase_done(r, d, table_name, in_memory, in_db, flags, 1)
    ELSE wdm_delete(
             IF key_to_update(in_memory, in_db) # {} /\ flags.update
             THEN update_phase(r.table, models, compare_on, DictKeys(models[1]),
                               key_to_update(in_memory, in_db))
             ELSE r,
             d, table_name, models, compare_on, flags, in_memory, in_db)

\* An INSERT phase that should_insert does not gate
wdm_insert_ungated(d, table_name, models, compare_on, flags, in_memory, in_db) ==
    wdm_update(
        IF key_to_insert(in_memory, in_db) # {}
        THEN insert_phase(d[table_name], models, compare_on, DictKeys(models[1]),
                          key_to_insert(in_memory, in_db))
        ELSE [err |-> None, table |-> d[table_name]],
        d, table_name, models, compare_on, flags, in_memory, in_db)

\* write_dict_models, lines 153-166, once in_db is known
wdm_insert(d, table_name, models, compare_on, flags, in_memory, in_db) ==
    wdm_update(
        IF key_to_insert(in_memory, in_db) # {} /\ flags.insert
        THEN insert_phase(d[table_name], models, compare_on, DictKeys(models[1]),
                          key_to_insert(in_memory, in_db))
        ELSE [err |-> None, table |-> d[table_name]],
        d, table_name, models, compare_on, flags, in_memory, in_db)

\* write_dict_models, lines 152-153, given what the SELECT of the keys returned
wdm_select(sel, d, table_name, models, compare_on, flags) ==
    IF sel.err # None THEN Done(sel.err, d, <<"select">>, NoSets)
    ELSE IF \E i \in DOMAIN models, k \in DOMAIN compare_on :
               ~DictHas(models[i], compare_on[k])
    THEN Done("KeyError", d, <<"select">>, NoSets)
    ELSE wdm_insert(d, table_name, models, compare_on, flags,
                    {get_id(models[i], compare_on) : i \in DOMAIN models},
                    Range(sel.val))

write_dict_models(d, table_name, models, compare_on, flags) ==
    wdm_select(exec_select(d, table_name, compare_on),
               d, table_name, models, compare_on, flags)

\* write, lines 138-141, given the flattened models
write_flat(flat, d, table_name, compare_on, flags) ==
    IF flat.err # None THEN Done(flat.err, d, <<>>, NoSets)
    ELSE write_dict_models(d, table_name, flat.val, compare_on, flags)

\* write, lines 135-141, with compare_on resolved
write_on(d, models, model_type, compare_on, flags) ==
    IF \E k \in DOMAIN compare_on : compare_on[k] \notin FieldNames(model_type)
    THEN Done("TypeError: compare_on not in fields", d, <<>>, NoSets)
    ELSE write_flat(AllOk([i \in DOMAIN models |-> flatten_model(models[i])]),
                    d, get_table_name(model_type), compare_on, flags)

\* A write that goes on without a comparison key
write_typed_unchecked(d, models, model_type, compare_on, flags) ==
    write_on(d, models, model_type,
             IF compare_on = NoAttr THEN model_type.id ELSE compare_on[1], flags)

\* write, lines 129-141, with model_type = type(models[0])
write_typed(d, models, model_type, compare_on, flags) ==
    IF compare_on = NoAttr /\ ~model_type.has_id
    THEN Done("TypeError: no __id__", d, <<>>, NoSets)
    ELSE write_on(d, models, model_type,
                  IF compare_on = NoAttr THEN model_type.id ELSE compare_on[1], flags)

\* write(c, models, compare_on, should_insert=, should_update=, should_delete=)
\* compare_on is NoAttr when it is not passed (None).
write(d, models, compare_on, flags) ==
    IF Len(models) = 0 THEN Done("TypeError: empty list", d, <<>>, NoSets)
    ELSE IF Cardinality({models[i].type : i \in DOMAIN models}) > 1
    THEN Done("TypeError: mixed types", d, <<>>, NoSets)
    ELSE write_typed(d, models, Models[models[1].type], compare_on, flags)

\* The defaults of write's keyword arguments (line 117)
Flags(insert, update, delete) == [insert |-> insert, update |-> update, delete |-> delete]
DefaultFlags == Flags(TRUE, TRUE, FALSE)

----------------------------------------------------------------------------
(* read_write.py: the query builder and get_where.  A query is             *)
(* [selects, from, joins]: the selected <<table, column>> pairs, the FROM  *)
(* table and the INNER JOINs, each [table, on] with `on` the list of       *)
(* <<left table, left column, right table, right column>> equalities.      *)

Query(selects, from, joins) == [selects |-> selects, from |-> from, joins |-> joins]
Join(table, on) == [table |-> table, kind |-> "inner", on |-> on]

RECURSIVE build_query(_)

\* The joins of the sub-query placed before the join on its table
join_sub_late(result, table_name, sub, sub_query) ==
    IF sub_query.err # None THEN sub_query
    ELSE IF ~sub.has_id THEN Raise("AttributeError: __id__")
    ELSE Ok([result EXCEPT
                !.selects = @ \o sub_query.val.selects,
                !.joins = (@ \o sub_query.val.joins)
                          \o <<Join(sub_query.val.from,
                                    [k \in DOMAIN sub.id |->
                                        <<table_name,
                                          fk_name(sub_query.val.from, sub.id[k]),
                                          sub_query.val.from, sub.id[k]>>])>>])

\* build_query, lines 44-50: the join on the sub-query's table, its selects
\* and its joins added to the result
join_sub(result, table_name, sub, sub_query) ==
    IF sub_query.err # None THEN sub_query
    ELSE IF ~sub.has_id THEN Raise("AttributeError: __id__")
    ELSE Ok([result EXCEPT
                !.selects = @ \o sub_query.val.selects,
                !.joins = Append(@, Join(sub_query.val.from,
                                     [k \in DOMAIN sub.id |->
                                         <<table_name,
                                           fk_name(sub_query.val.from, sub.id[k]),
                                           sub_query.val.from, sub.id[k]>>]))
                          \o sub_query.val.joins])

\* build_query, the body of the loop over model_type.__fields__
query_field(result, table_name, field) ==
    IF ~is_model(field)
    THEN Ok([result EXCEPT !.selects = Append(@, <<table_name, field.name>>)])
    ELSE join_sub(result, table_name, Models[field.type], build_query(Models[field.type]))

RECURSIVE build_query_from(_, _, _)
\* build_query, the loop over model_type.__fields__ from field i on
build_query_from(m, i, result) ==
    IF result.err # None \/ i > Len(m.fields) THEN result
    ELSE build_query_from(m, i + 1, query_field(result.val, get_table_name(m), m.fields[i]))

build_query(m) == build_query_from(m, 1, Ok(Query(<<>>, get_table_name(m), <<>>)))

\* The tables of a query, the FROM table first
QueryTables(q) == <<q.from>> \o [k \in DOMAIN q.joins |-> q.joins[k].table]

\* The tables (by position) that have a column of this name
Resolve(d, tables, name) == {k \in DOMAIN tables : InSeq(name, d[tables[k]].cols)}

\* table.col names a column of a table of the query
HasColumn(d, tables, table, col) == InSeq(table, tables) /\ InSeq(col, d[table].cols)

\* Whether the database can prepare the query: its tables exist, none is named
\* twice, every qualified column exists, every bare WHERE column names one table.
Prepares(d, q, tables, where) ==
    /\ Range(tables) \subseteq DOMAIN d
    /\ NoDuplicates(tables)
    /\ \A k \in DOMAIN q.selects : HasColumn(d, tables, q.selects[k][1], q.selects[k][2])
    /\ \A j \in DOMAIN q.joins : \A k \in DOMAIN q.joins[j].on :
          /\ HasColumn(d, tables, q.joins[j].on[k][1], q.joins[j].on[k][2])
          /\ HasColumn(d, tables, q.joins[j].on[k][3], q.joins[j].on[k][4])
    /\ \A k \in DOMAIN where : Cardinality(Resolve(d, tables, where[k][1])) = 1

\* The value of table.col in a joined row (one row per table of the query)
ColumnValue(d, tables, env, table, col) ==
    env[ColIndex(tables, table)][ColIndex(d[table].cols, col)]

\* The ON condition of a join on a joined row
Matches(d, tables, on, env) ==
    \A k \in DOMAIN on :
        ColumnValue(d, tables, env, on[k][1], on[k][2])
            = ColumnValue(d, tables, env, on[k][3], on[k][4])

\* The joined rows that extend env by a row of the joined table
Extend(d, tables, jn, env) ==
    Filter([i \in DOMAIN d[jn.table].rows |-> Append(env, d[jn.table].rows[i])],
           LAMBDA e : Matches(d, tables, jn.on, e))

RECURSIVE join_rows(_, _, _, _, _)
\* The joined rows: each a tuple of one row per table of the query so far.
join_rows(d, q, tables, j, envs) ==
    IF j > Len(q.joins) THEN envs
    ELSE join_rows(d, q, tables, j + 1,
                   Concat([e \in DOMAIN envs |-> Extend(d, tables, q.joins[j], envs[e])]))

\* The WHERE clause on a joined row: name = ? for each constraint
Holds(d, tables, where, env) ==
    \A k \in DOMAIN where :
        \E at \in Resolve(d, tables, where[k][1]) :
            env[at][ColIndex(d[tables[at]].cols, where[k][1])] = where[k][2]

\* The rows a prepared query returns
run_query(d, q, tables, where) ==
    Map(Filter(join_rows(d, q, tables, 1,
                         [i \in DOMAIN d[q.from].rows |-> <<d[q.from].rows[i]>>]),
               LAMBDA env : Holds(d, tables, where, env)),
        LAMBDA env : [k \in DOMAIN q.selects |->
                         ColumnValue(d, tables, env, q.selects[k][1], q.selects[k][2])])

\* c.execute(query.sql(), values).fetchall()
exec_query(d, q, where) ==
    IF ~Prepares(d, q, QueryTables(q), where) THEN Raise("OperationalError")
    ELSE Ok(run_query(d, q, QueryTables(q), where))

\* grouped_selects[table][name] after the loop over zip(query.selects, row):
\* a later value of the same table and column wins.
grouped(selects, row, table, name) ==
    row[CHOOSE k \in DOMAIN selects :
           /\ selects[k] = <<table, name>>
           /\ \A j \in DOMAIN selects : selects[j] = <<table, name>> => j <= k]

RECURSIVE build_model(_, _, _)
\* build_model(grouped_selects, model_type): the field values of the model
build_model(selects, row, m) ==
    [f \in FieldNames(m) |->
        IF is_model(FieldOf(m, f))
        THEN Obj(FieldOf(m, f).type, build_model(selects, row, Models[FieldOf(m, f).type]))
        ELSE grouped(selects, row, get_table_name(m), f)]

Read(err, stmts, result) == [err |-> err, stmts |-> stmts, result |-> result]

\* get_where, lines 87-96, given what the query returned
where_rows(rows, key, query) ==
    IF rows.err # None THEN Read(rows.err, <<"select">>, <<>>)
    ELSE Read(None, <<"select">>,
              Map(rows.val, LAMBDA row :
                  Obj(key, build_model(query.selects, row, Models[key]))))

\* get_where, lines 77-96, given the query build_query returned
where_query(d, key, constraints, query) ==
    IF query.err # None THEN Read(query.err, <<>>, <<>>)
    ELSE where_rows(exec_query(d, query.val, constraints), key, query.val)

\* get_where(c, model_type, **constraints): constraints is the sequence of
\* <<name, value>> keyword arguments.
get_where(d, key, constraints) ==
    IF \E k \in DOMAIN constraints : constraints[k][1] \notin FieldNames(Models[key])
    THEN Read("TypeError: column not in model", <<>>, <<>>)
    ELSE where_query(d, key, constraints, build_query(Models[key]))

----------------------------------------------------------------------------
(* The calls made on one database: setup_database on the new database,     *)
(* then any sequence of write and get_where.                               *)

TxObjects == {Obj("Tx", n_id :> i @@ n_amount :> a) : i \in Values, a \in Values}
NoteObjects == {Obj("Note", n_body :> b) : b \in Values}
TxRowObjects == {Obj("TxRow", n_id :> 0)}
AccountObjects ==
    {Obj("Account", n_id :> 0 @@ n_tx :> t) : t \in {x \in TxObjects : x.vals[n_amount] = 0}}

ObjectSets == <<TxObjects, NoteObjects, TxRowObjects, AccountObjects>>

\* One object of each type, for the lists that mix types
Representatives == {CHOOSE o \in ObjectSets[k] : TRUE : k \in DOMAIN ObjectSets}

\* The lists handed to write: every list of objects of one type, and the
\* lists of representatives of more than one type, up to MaxModels long.
Collections ==
    UNION {SeqsUpTo(ObjectSets[k], MaxModels) : k \in DOMAIN ObjectSets}
    \cup {l \in SeqsUpTo(Representatives, MaxModels) :
             Cardinality({l[i].type : i \in DOMAIN l}) > 1}

CompareOns == {NoAttr, Attr(<<n_amount>>), Attr(<<n_id, n_amount>>)}
FlagSets == {Flags(i, u, x) : i \in BOOLEAN, u \in BOOLEAN, x \in BOOLEAN}
SetupLists == {<<"Tx">>, <<"Note">>, <<"TxRow">>, <<"Tx", "Account">>}
ReadTypes == {"Tx", "Note", "TxRow", "Account"}
Constraints == {<<>>} \cup {<<<<n, v>>>> : n \in {n_id, n_amount}, v \in Values}

\* The record of a call: its arguments, what it did (see Done), the database
\* it found (`before`) and, when it follows another call directly, the record
\* of that call (`prev`, itself without a prev).
NoCall ==
    [op |-> "none", types |-> <<>>, models |-> <<>>, compare_on |-> NoAttr,
     flags |-> DefaultFlags, constraints |-> <<>>, err |-> None, stmts |-> <<>>,
     in_db |-> {}, in_memory |-> {}, to_insert |-> {}, to_update |-> {},
     to_delete |-> {}, computed |-> {}, result |-> <<>>,
     before |-> <<>>, prev |-> <<>>]

EmptyDb == <<>>

Idle == <<>>

\* The record of the call a follow-up call keeps
Previous == IF call.op = "none" THEN <<>> ELSE <<[call EXCEPT !.prev = <<>>]>>

\* setup_database has returned r
SetUp(r, models) ==
    /\ db' = r.db
    /\ call' = [NoCall EXCEPT !.op = "setup_database", !.types = models,
                              !.err = r.err, !.stmts = r.stmts, !.before = db]

\* setup_database(c, models) on the new database
SetupDatabase(models) ==
    /\ call.op = "none"
    /\ DOMAIN db = {}
    /\ SetUp(setup_database(db, models), models)
    /\ UNCHANGED <<scopes, gen, view>>

\* write has returned or raised r
Wrote(r, models, compare_on, flags) ==
    /\ db' = r.db
    /\ call' = [NoCall EXCEPT !.op = "write", !.models = models,
                              !.compare_on = compare_on, !.flags = flags,
                              !.err = r.err, !.stmts = r.stmts,
                              !.in_db = r.in_db, !.in_memory = r.in_memory,
                              !.to_insert = r.to_insert, !.to_update = r.to_update,
                              !.to_delete = r.to_delete, !.computed = r.computed,
                              !.before = db, !.prev = Previous]

DoWrite(models, compare_on, flags) ==
    /\ DOMAIN db # {}
    /\ Wrote(write(db, models, compare_on, flags), models, compare_on, flags)
    /\ UNCHANGED <<scopes, gen, view>>

\* get_where has returned or raised r
Got(r, key, constraints) ==
    call' = [NoCall EXCEPT !.op = "get_where", !.types = <<key>>,
                           !.constraints = constraints,
                           !.err = r.err, !.stmts = r.stmts, !.result = r.result,
                           !.before = db, !.prev = Previous]

DoGetWhere(key, constraints) ==
    /\ DOMAIN db # {}
    /\ Got(get_where(db, key, constraints), key, constraints)
    /\ UNCHANGED <<db, scopes, gen, view>>

\* write(c, models, ...) as the first call after other work
Write(models, compare_on, flags) ==
    /\ call.op = "none"
    /\ DoWrite(models, compare_on, flags)

\* The same write(c, models, ...) called again, directly after the first
WriteAgain ==
    /\ call.op = "write"
    /\ call.prev = <<>>
    /\ DoWrite(call.models, call.compare_on, call.flags)

\* get_where(c, model_type, **constraints) as the first call after other work
GetWhere(key, constraints) ==
    /\ call.op = "none"
    /\ DoGetWhere(key, constraints)

\* get_where(c, type(models[0])) called directly after write(c, models)
GetWhereAfterWrite ==
    /\ call.op = "write"
    /\ call.prev = <<>>
    /\ call.models # <<>>
    /\ DoGetWhere(call.models[1].type, <<>>)

\* The caller moves on: what the last call returned is dropped.
Return ==
    /\ call.op # "none"
    /\ call' = NoCall
    /\ UNCHANGED <<db, scopes, gen, view>>

InitWrite ==
    /\ db = EmptyDb
    /\ call = NoCall
    /\ scopes = Idle
    /\ gen = Idle
    /\ view = Idle

NextWrite ==
    \/ \E models \in SetupLists : SetupDatabase(models)
    \/ \E models \in Collections, compare_on \in CompareOns, flags \in FlagSets :
          Write(models, compare_on, flags)
    \/ WriteAgain
    \/ \E key \in ReadTypes, constraints \in Constraints : GetWhere(key, constraints)
    \/ GetWhereAfterWrite
    \/ Return

SpecWrite == InitWrite /\ [][NextWrite]_vars

----------------------------------------------------------------------------
(* Properties of write and write_dict_models, over SpecWrite               *)

AllSets == {"to_insert", "to_update", "to_delete"}

\* The table write(c, models) addresses
WrittenTable(models) == get_table_name(Models[models[1].type])

\* The keys of a table's rows on the columns compare_on
KeysOf(t, compare_on) == {Project(t.cols, t.rows[i], compare_on) : i \in DOMAIN t.rows}

\* C1: the three key sets write_dict_models computes are inMemory - inDb,
\* inMemory & inDb and inDb - inMemory; they are pairwise disjoint and their
\* union is inDb union inMemory, whatever the collection and the table hold.
C1_Partition ==
    (call.op = "write" /\ call.computed = AllSets) =>
        /\ call.to_insert = call.in_memory \ call.in_db
        /\ call.to_update = call.in_memory \cap call.in_db
        /\ call.to_delete = call.in_db \ call.in_memory
        /\ call.to_insert \cap call.to_update = {}
        /\ call.to_insert \cap call.to_delete = {}
        /\ call.to_update \cap call.to_delete = {}
        /\ call.to_insert \cup call.to_update \cup call.to_delete
               = call.in_db \cup call.in_memory

\* A write whose three key sets are all non-empty
C1_Witness ==
    /\ call.op = "write"
    /\ call.computed = AllSets
    /\ call.to_insert # {}
    /\ call.to_update # {}
    /\ call.to_delete # {}

\* The write call that directly follows a write call with the same arguments
SecondWrite == call.op = "write" /\ call.prev # <<>>

\* The original statement of C2: the second of two identical default-flag
\* writes computes an empty to_insert and an empty to_delete.
C2_Original ==
    (/\ SecondWrite
     /\ call.flags = DefaultFlags
     /\ call.prev[1].err = None
     /\ call.computed = AllSets) =>
        /\ call.to_insert = {}
        /\ call.to_delete = {}

\* C2: after write(c, models) with default flags has returned, the same call
\* made again reads the keys, finds none to insert, and, when it gets to
\* to_delete, finds in it exactly the keys the table held before the first
\* call that the collection lacks: the first call's to_delete, which the
\* default should_delete=False leaves in the table.
C2_Idempotent ==
    (/\ SecondWrite
     /\ call.flags = DefaultFlags
     /\ call.prev[1].err = None) =>
        /\ "to_insert" \in call.computed
        /\ call.to_insert = {}
        /\ "to_delete" \in call.computed =>
              /\ call.to_delete = call.prev[1].to_delete
              /\ call.to_delete = call.prev[1].in_db \ call.in_memory

\* A second default-flag write, after a first that inserted, with keys left
\* to delete
C2_Witness ==
    /\ SecondWrite
    /\ call.flags = DefaultFlags
    /\ call.prev[1].err = None
    /\ call.prev[1].to_insert # {}
    /\ call.computed = AllSets
    /\ call.to_insert = {}
    /\ call.to_delete # {}

\* A model type without nested models that declares a primary key
FlatKeyed(type) ==
    /\ Models[type].has_id
    /\ \A i \in DOMAIN Models[type].fields : ~is_model(Models[type].fields[i])

\* tuple(getattr(obj, name) for name in type(obj).__id__)
ObjKey(obj) == [k \in DOMAIN Models[obj.type].id |-> obj.vals[Models[obj.type].id[k]]]

\* The database is as setup_database(c, models) leaves a new one, `type` being
\* among models: the tables exist and are empty.
FreshFor(d, type) ==
    \E models \in SetupLists :
        /\ InSeq(type, models)
        /\ d = setup_database(EmptyDb, models).db

\* The case of C3: write(c, models), default arguments, of objects of one flat
\* model type with distinct keys, on the tables setup_database created.
RoundTripCase(w) ==
    /\ w.models # <<>>
    /\ \A i \in DOMAIN w.models : w.models[i].type = w.models[1].type
    /\ FlatKeyed(w.models[1].type)
    /\ \A i, j \in DOMAIN w.models : ObjKey(w.models[i]) = ObjKey(w.models[j]) => i = j
    /\ w.compare_on = NoAttr
    /\ w.flags = DefaultFlags
    /\ FreshFor(w.before, w.models[1].type)

\* C3: writing N objects of one flat model type to the empty table
\* setup_database created inserts exactly N rows, get_where without
\* constraints then returns exactly the written objects, and the same write
\* made again inserts nothing: the table still holds N rows.
C3_RoundTrip ==
    /\ (call.op = "write" /\ call.prev = <<>> /\ RoundTripCase(call)) =>
          /\ call.err = None
          /\ Len(db[WrittenTable(call.models)].rows) = Len(call.models)
    /\ (call.op = "get_where" /\ call.prev # <<>> /\ RoundTripCase(call.prev[1])) =>
          /\ call.err = None
          /\ Len(call.result) = Len(call.prev[1].models)
          /\ Range(call.result) = Range(call.prev[1].models)
    /\ (SecondWrite /\ RoundTripCase(call.prev[1])) =>
          /\ call.err = None
          /\ call.to_insert = {}
          /\ Len(db[WrittenTable(call.models)].rows) = Len(call.models)

\* The table a write call addressed, before and after the call; an absent
\* table holds no rows.
RowsIn(d, w) ==
    IF w.models # <<>> /\ WrittenTable(w.models) \in DOMAIN d
    THEN d[WrittenTable(w.models)].rows ELSE <<>>

\* C4: the phases of write are gated one by one by should_insert (default
\* true), should_update (default true) and should_delete (default false):
\* a phase's statement is executed only under its flag; with should_insert
\* false no row is added, with should_update false every row the table held
\* is still there unchanged (unless the DELETE phase removed it), and with
\* should_delete false no row is removed; other tables are never touched.
C4_Gated ==
    /\ DefaultFlags = Flags(TRUE, TRUE, FALSE)
    /\ call.op = "write" =>
          /\ InSeq("insert", call.stmts) <=> (call.flags.insert /\ call.to_insert # {})
          /\ InSeq("update", call.stmts) => call.flags.update
          /\ InSeq("delete", call.stmts) => call.flags.delete
          /\ ~call.flags.insert =>
                Len(RowsIn(db, call)) <= Len(RowsIn(call.before, call))
          /\ ~call.flags.update =>
                \A i \in DOMAIN RowsIn(call.before, call) :
                    \/ InSeq(RowsIn(call.before, call)[i], RowsIn(db, call))
                    \/ call.flags.delete
          /\ (~call.flags.update /\ ~call.flags.delete) =>
                SubSeq(RowsIn(db, call), 1, Len(RowsIn(call.before, call)))
                    = RowsIn(call.before, call)
          /\ ~call.flags.delete =>
                Len(RowsIn(db, call)) >= Len(RowsIn(call.before, call))
          /\ \A t \in DOMAIN db :
                (call.models = <<>> \/ t # WrittenTable(call.models)) =>
                    db[t] = call.before[t]

\* A write with should_insert false and keys to insert, and should_update
\* false and keys to update, that returns with the table as it was
C4_Witness ==
    /\ call.op = "write"
    /\ call.flags = Flags(FALSE, FALSE, FALSE)
    /\ call.err = None
    /\ call.to_insert # {}
    /\ call.to_update # {}
    /\ call.to_delete # {}
    /\ call.stmts = <<"select">>
    /\ db = call.before

\* The TypeErrors write raises before it touches the cursor
EarlyErrors == {"TypeError: empty list", "TypeError: mixed types", "TypeError: no __id__"}

\* C5: write raises at once, with no statement executed and the database as
\* it was, when the collection is empty, when it holds objects of more than
\* one type, or when compare_on is not passed and the model type has no __id__.
C5_FailsFirst ==
    call.op = "write" =>
        /\ call.models = <<>> => call.err = "TypeError: empty list"
        /\ Cardinality({call.models[i].type : i \in DOMAIN call.models}) > 1 =>
              call.err = "TypeError: mixed types"
        /\ (/\ Cardinality({call.models[i].type : i \in DOMAIN call.models}) = 1
            /\ call.compare_on = NoAttr
            /\ ~Models[call.models[1].type].has_id) =>
              call.err = "TypeError: no __id__"
        /\ call.err \in EarlyErrors => (call.stmts = <<>> /\ db = call.before)

\* A write of objects of a model type without __id__, compare_on not passed,
\* on a database whose tables hold rows
C5_Witness ==
    /\ call.op = "write"
    /\ call.err = "TypeError: no __id__"
    /\ call.models # <<>>
    /\ call.stmts = <<>>
    /\ \E t \in DOMAIN db : db[t].rows # <<>>

----------------------------------------------------------------------------
(* sql_first.py: the schema parser.  A statement is the sqlglot tree of    *)
(* one CREATE: Create nodes hold the kind, the name and, for a table, the  *)
(* schema's expressions: ColumnDef, PrimaryKey, Constraint and other       *)
(* nodes.  Names are strings (sequences of characters); an absent name or  *)
(* alias is the empty string <<>>.  A pydantic type is [typ, optional,     *)
(* primary_key]: typ wrapped in typing.Optional[...] and then in           *)
(* typing.Annotated[..., Annotations.PRIMARY_KEY] as the flags say.        *)

Create(kind, name, expressions) ==
    [node |-> "Create", kind |-> kind, name |-> name, expressions |-> expressions]

\* A column constraint: NOT NULL (allow_null absent), NULL (allow_null true),
\* PRIMARY KEY, GENERATED ALWAYS AS ROW ... [HIDDEN]
ColumnConstraint(kind, flag) == [kind |-> kind, allow_null |-> flag, hidden |-> flag]
NotNull == ColumnConstraint("NotNullColumnConstraint", FALSE)
Null == ColumnConstraint("NotNullColumnConstraint", TRUE)
InlinePk == ColumnConstraint("PrimaryKeyColumnConstraint", FALSE)
HiddenRow == ColumnConstraint("GeneratedAsRowColumnConstraint", TRUE)

ColumnDef(name, kind, constraints) ==
    [node |-> "ColumnDef", this |-> name, kind |-> kind, constraints |-> constraints]

\* PRIMARY KEY (a, b) at table level: its entries are Identifier nodes
PrimaryKeyNode(names) == [node |-> "PrimaryKey", expressions |-> names, columns |-> <<>>]

\* A node under a named constraint, or another table-level node, with the
\* names of the Column nodes a walk of it finds
SchemaNode(node, columns) == [node |-> node, expressions |-> <<>>, columns |-> columns]

\* CONSTRAINT name <constraints>
ConstraintNode(name, expressions) ==
    [node |-> "Constraint", this |-> name, expressions |-> expressions]

PyType(typ, optional, primary_key) ==
    [typ |-> typ, optional |-> optional, primary_key |-> primary_key]

SQLGLOT_TYPE_TO_PYDANTIC ==
    [BIGINT |-> "int", BIT |-> "bool", CHAR |-> "str", DATE |-> "datetime.date",
     DATETIME |-> "datetime.datetime", DECIMAL |-> "float", FLOAT |-> "float",
     INT |-> "int", NCHAR |-> "str", NVARCHAR |-> "str", SMALLINT |-> "int",
     VARCHAR |-> "str", TEXT |-> "str", UNIQUEIDENTIFIER |-> "str"]

\* A column marked optional whenever it lacks NOT NULL
transform_column_def_absent(col_def, primary_key) ==
    IF col_def.kind \notin DOMAIN SQLGLOT_TYPE_TO_PYDANTIC THEN Raise("KeyError")
    ELSE Ok(<<col_def.this,
              PyType(SQLGLOT_TYPE_TO_PYDANTIC[col_def.kind],
                     ~\E i \in DOMAIN col_def.constraints :
                         /\ col_def.constraints[i].kind = "NotNullColumnConstraint"
                         /\ ~col_def.constraints[i].allow_null,
                     \/ \E i \in DOMAIN col_def.constraints :
                           col_def.constraints[i].kind = "PrimaryKeyColumnConstraint"
                     \/ col_def.this \in primary_key)>>)

\* transform_column_def(col_def, primary_key)
transform_column_def(col_def, primary_key) ==
    IF col_def.kind \notin DOMAIN SQLGLOT_TYPE_TO_PYDANTIC THEN Raise("KeyError")
    ELSE Ok(<<col_def.this,
              PyType(SQLGLOT_TYPE_TO_PYDANTIC[col_def.kind],
                     \E i \in DOMAIN col_def.constraints :
                         /\ col_def.constraints[i].kind = "NotNullColumnConstraint"
                         /\ col_def.constraints[i].allow_null,
                     \/ \E i \in DOMAIN col_def.constraints :
                           col_def.constraints[i].kind = "PrimaryKeyColumnConstraint"
                     \/ col_def.this \in primary_key)>>)

\* parse_create_table, lines 65-69: the columns of the table-level PRIMARY KEYs
pk_columns(expressions) ==
    UNION {Range(expressions[i].expressions) :
              i \in {j \in DOMAIN expressions : expressions[j].node = "PrimaryKey"}}

\* parse_create_table, lines 71-75: the Column nodes under the named
\* constraints that hold a PrimaryKeyColumnConstraint
pk_names(expressions) ==
    UNION {UNION {Range(expressions[i].expressions[k].columns) :
                     k \in DOMAIN expressions[i].expressions} :
              i \in {j \in DOMAIN expressions :
                        /\ expressions[j].node = "Constraint"
                        /\ \E k \in DOMAIN expressions[j].expressions :
                              expressions[j].expressions[k].node
                                  = "PrimaryKeyColumnConstraint"}}

\* parse_create_table, lines 83-90: a ColumnDef that is not a hidden
\* GENERATED ALWAYS AS ROW column
is_parsed(expr) ==
    /\ expr.node = "ColumnDef"
    /\ ~\E i \in DOMAIN expr.constraints :
           /\ expr.constraints[i].kind = "GeneratedAsRowColumnConstraint"
           /\ expr.constraints[i].hidden

\* parse_create_table, lines 81-94, given the primary key
parse_columns(sql_expr, primary_key) ==
    AllOk(Map(Filter(sql_expr.expressions, is_parsed),
              LAMBDA col_def : transform_column_def(col_def, primary_key)))

\* The (table_name, column_defs) parse_create_table returns
parsed_table(table_name, column_defs) ==
    IF column_defs.err # None THEN column_defs
    ELSE Ok([name |-> table_name, column_defs |-> column_defs.val])

\* parse_create_table(sql_expr)
parse_create_table(sql_expr) ==
    IF sql_expr.node # "Create" THEN Raise("ValueError")
    ELSE parsed_table(sql_expr.name,
             parse_columns(sql_expr, pk_columns(sql_expr.expressions)
                                         \cup pk_names(sql_expr.expressions)))

Uppers == <<"A", "B", "C", "D", "E", "F", "G", "H", "I", "J", "K", "L", "M",
            "N", "O", "P", "Q", "R", "S", "T", "U", "V", "W", "X", "Y", "Z">>
Lowers == <<"a", "b", "c", "d", "e", "f", "g", "h", "i", "j", "k", "l", "m",
            "n", "o", "p", "q", "r", "s", "t", "u", "v", "w", "x", "y", "z">>

\* One character mapped from one alphabet to the other: c.upper(), c.lower()
Recase(c, from, to) ==
    IF InSeq(c, from) THEN to[ColIndex(from, c)] ELSE c

\* word.capitalize(): the first character upper case, the rest lower case
capitalize(word) ==
    [i \in DOMAIN word |->
        IF i = 1 THEN Recase(word[i], Lowers, Uppers) ELSE Recase(word[i], Uppers, Lowers)]

RECURSIVE split(_, _, _)
\* s.split(sep) for a one-character sep, `word` being the word in progress
split(s, sep, word) ==
    IF s = <<>> THEN <<word>>
    ELSE IF Head(s) = sep THEN <<word>> \o split(Tail(s), sep, <<>>)
    ELSE split(Tail(s), sep, Append(word, Head(s)))

\* utils.get_model_name(table_name)
get_model_name(table_name) ==
    Concat(Map(split(table_name, "_", <<>>), capitalize)) \o RowSuffix

\* The class create_models_from_sql writes for a table or a view
model_code(table) ==
    [name |-> get_model_name(table.name), query_name |-> table.name,
     fields |-> table.column_defs]

----------------------------------------------------------------------------
(* sql_first.py: views.  The Create node of a view holds a Select: its     *)
(* FROM table, its joins and its output expressions.                       *)

CreateView(name, select) ==
    [node |-> "Create", kind |-> "VIEW", name |-> name, expression |-> select]

Select(from, joins, expressions) ==
    [from |-> from, joins |-> joins, expressions |-> expressions]

\* A table of a FROM or a JOIN, with its alias ("" when it has none)
TableRef(name, alias) == [name |-> name, alias |-> alias]

JoinNode(side, this) == [side |-> side, this |-> this]

\* The output expressions: table.name, expr AS alias, COALESCE(this,
\* expressions...), NULL, a literal, and anything else (a function call)
ColumnNode(table, name) == [node |-> "Column", table |-> table, name |-> name]
AliasNode(this, alias) == [node |-> "Alias", this |-> this, alias |-> alias]
CoalesceNode(this, expressions) ==
    [node |-> "Coalesce", this |-> this, expressions |-> expressions]
NullNode == [node |-> "Null"]
LiteralNode == [node |-> "Literal"]
FuncNode == [node |-> "Anonymous"]

\* table.alias_or_name
alias_or_name(table) == IF table.alias # <<>> THEN table.alias ELSE table.name

\* The children of an expression, in the order walk() visits them
Children(expr) ==
    CASE expr.node = "Alias" -> <<expr.this>>
      [] expr.node = "Coalesce" -> <<expr.this>> \o expr.expressions
      [] OTHER -> <<>>

RECURSIVE walk_columns(_)
\* [node for node, parent, key in sql_expr.walk() if isinstance(node, exp.Column)]
\* for the expressions in `queue` and what is below them, breadth first
walk_columns(queue) ==
    IF queue = <<>> THEN <<>>
    ELSE (IF Head(queue).node = "Column" THEN <<Head(queue)>> ELSE <<>>)
         \o walk_columns(Tail(queue) \o Children(Head(queue)))

\* parse_first_table_name(sql_expr)
parse_first_table_name(sql_expr) ==
    IF sql_expr.node = "Column" THEN Ok(sql_expr.table)
    ELSE IF walk_columns(<<sql_expr>>) = <<>> THEN Raise("ValueError")
    ELSE Ok(walk_columns(<<sql_expr>>)[1].table)

\* strip_annotations(typ)
strip_annotations(typ) == [typ EXCEPT !.primary_key = FALSE]

\* The From node itself, which line 126 puts in `seen`: no string equals it.
FromNode(base) == <<"From ">> \o base.name \o <<" AS ">> \o base.alias

\* A table's name and, if it has one, its alias
name_and_alias(table) == {table.name} \cup (IF table.alias # <<>> THEN {table.alias} ELSE {})

\* get_optional_tables_and_aliases, line 138-143: every FULL JOIN assigns
\* base.name, base.alias (a From node has no alias of its own: "") and the
\* names and aliases of all joins
full_join_optional(base, joins) ==
    {base.name} \cup UNION {name_and_alias(joins[j].this) : j \in DOMAIN joins}

\* get_optional_tables_and_aliases, the body of the loop over joins
optional_after(optional, seen, base, joins, join) ==
    CASE join.side = "RIGHT" -> optional \cup seen
      [] join.side = "LEFT" -> optional \cup name_and_alias(join.this)
      [] join.side = "FULL" -> full_join_optional(base, joins)
      [] OTHER -> optional

RECURSIVE optional_from(_, _, _, _, _)
\* get_optional_tables_and_aliases, the loop over joins from join i on
optional_from(base, joins, i, optional, seen) ==
    IF i > Len(joins) THEN optional
    ELSE optional_from(base, joins, i + 1,
                       optional_after(optional, seen, base, joins, joins[i]),
                       seen \cup name_and_alias(joins[i].this))

\* get_optional_tables_and_aliases(select)
get_optional_tables_and_aliases(select) ==
    optional_from(select.from, select.joins, 1, {}, {FromNode(select.from)})

\* What parse_select_col returns
SelectCol(name, table, column, not_nullable) ==
    Ok([name |-> name, table |-> table, column |-> column, not_nullable |-> not_nullable])

RECURSIVE parse_select_col(_)

\* parse_select_col, lines 149-151
select_alias(col, inner) ==
    IF inner.err # None THEN inner
    ELSE SelectCol(col.alias, inner.val.table, inner.val.column, inner.val.not_nullable)

\* parse_select_col, lines 152-157
select_coalesce(first, fallbacks) ==
    IF first.err # None THEN first
    ELSE IF fallbacks.err # None THEN fallbacks
    ELSE SelectCol(first.val.name, first.val.table, first.val.column,
                   \E i \in DOMAIN fallbacks.val : fallbacks.val[i].not_nullable)

\* parse_select_col(col)
parse_select_col(col) ==
    CASE col.node = "Alias" -> select_alias(col, parse_select_col(col.this))
      [] col.node = "Coalesce" ->
            select_coalesce(parse_select_col(col.this),
                            AllOk(Map(col.expressions, parse_select_col)))
      [] col.node = "Column" -> SelectCol(col.name, col.table, col.name, FALSE)
      [] col.node = "Null" -> SelectCol(<<>>, <<>>, <<>>, FALSE)
      [] col.node = "Literal" -> SelectCol(<<>>, <<>>, <<>>, TRUE)
      [] OTHER -> Raise("ValueError")

\* col.alias_or_name of an output expression
output_name(col) ==
    CASE col.node = "Alias" -> col.alias
      [] col.node = "Column" -> col.name
      [] OTHER -> <<>>

\* models.get(name): <<>> for None, else <<the columns of the table>>
models_get(models, name) == IF name \in DOMAIN models THEN <<models[name]>> ELSE <<>>

\* parse_create_view, lines 175-178: later entries replace earlier ones
alias_to_model(select, models) ==
    [a \in {alias_or_name(select.from)}
           \cup {alias_or_name(select.joins[j].this) : j \in DOMAIN select.joins} |->
        IF \E j \in DOMAIN select.joins : alias_or_name(select.joins[j].this) = a
        THEN models_get(models,
                 select.joins[CHOOSE j \in DOMAIN select.joins :
                     /\ alias_or_name(select.joins[j].this) = a
                     /\ \A k \in DOMAIN select.joins :
                           alias_or_name(select.joins[k].this) = a => k <= j].this.name)
        ELSE models_get(models, select.from.name)]

\* dict(column_defs)[name]
column_type(column_defs, name) ==
    column_defs[CHOOSE i \in DOMAIN column_defs :
                   /\ column_defs[i][1] = name
                   /\ \A j \in DOMAIN column_defs : column_defs[j][1] = name => j <= i][2]

\* parse_create_view, lines 192-195: Optional[...] around the type of a
\* column of an optional table, unless the column has a non-null fallback
view_type(col_model, table, optional, has_non_null_fallback) ==
    IF table \in optional /\ ~col_model.optional /\ ~has_non_null_fallback
    THEN [col_model EXCEPT !.optional = TRUE]
    ELSE col_model

\* parse_create_view, lines 190-195, given what parse_select_col returned
view_column(col, table, parsed, aliases, optional) ==
    IF parsed.err # None THEN parsed
    ELSE IF parsed.val.table \notin DOMAIN aliases THEN Raise("KeyError")
    ELSE IF aliases[parsed.val.table] = <<>> THEN Raise("TypeError")
    ELSE IF ~\E i \in DOMAIN aliases[parsed.val.table][1] :
                aliases[parsed.val.table][1][i][1] = parsed.val.column
    THEN Raise("KeyError")
    ELSE Ok(<<output_name(col),
              view_type(strip_annotations(
                            column_type(aliases[parsed.val.table][1], parsed.val.column)),
                        table, optional, parsed.val.not_nullable)>>)

\* parse_create_view, lines 180-198, given the tables the columns name
view_columns(sql_expr, tables, aliases) ==
    IF tables.err # None THEN tables
    ELSE IF \E i \in DOMAIN tables.val : tables.val[i] \notin DOMAIN aliases
    THEN Raise("ValueError")
    ELSE parsed_table(sql_expr.name,
             AllOk([i \in DOMAIN tables.val |->
                 view_column(sql_expr.expression.expressions[i], tables.val[i],
                             parse_select_col(sql_expr.expression.expressions[i]),
                             aliases,
                             get_optional_tables_and_aliases(sql_expr.expression))]))

\* parse_create_view(sql_expr, models)
parse_create_view(sql_expr, models) ==
    view_columns(sql_expr,
                 AllOk(Map(sql_expr.expression.expressions, parse_first_table_name)),
                 alias_to_model(sql_expr.expression, models))

\* The model_specs create_models_from_sql keeps: the column_defs of each
\* parsed table by name, a later table of the same name replacing an earlier
model_specs(tables) ==
    [n \in {tables[i].name : i \in DOMAIN tables} |->
        tables[CHOOSE i \in DOMAIN tables :
                  /\ tables[i].name = n
                  /\ \A j \in DOMAIN tables : tables[j].name = n => j <= i].column_defs]

\* create_models_from_sql, lines 245-275, given the parsed views
models_of(tables, views) ==
    IF views.err # None THEN views
    ELSE Ok(Map(tables \o views.val, model_code))

\* create_models_from_sql, lines 245-275, given the parsed tables
views_of(tables, view_exprs) ==
    IF tables.err # None THEN tables
    ELSE models_of(tables.val,
             AllOk(Map(view_exprs,
                       LAMBDA v : parse_create_view(v, model_specs(tables.val)))))

\* create_models_from_sql(sql, dialect), given the trees parse_one returned
create_models_from_sql(sql_exprs) ==
    IF \E i \in DOMAIN sql_exprs : sql_exprs[i].node # "Create" THEN Raise("ValueError")
    ELSE views_of(AllOk(Map(Filter(sql_exprs, LAMBDA e : e.kind # "VIEW"),
                            parse_create_table)),
                  Filter(sql_exprs, LAMBDA e : e.kind = "VIEW"))

\* The sqlglot type of a column type generate_sql writes
sql_kind(type) ==
    CASE type = "integer not null" -> "INT"
      [] type = "text not null" -> "TEXT"
      [] type = "real not null" -> "FLOAT"

\* parse_one(sql_stmt) of a CREATE TABLE statement generate_sql wrote: every
\* column is NOT NULL; the constraints are PRIMARY KEY and FOREIGN KEY nodes.
parse_one(stmt) ==
    Create("TABLE", stmt.name,
           [i \in DOMAIN stmt.columns |->
               ColumnDef(stmt.columns[i].name, sql_kind(stmt.columns[i].type), <<NotNull>>)]
           \o [i \in DOMAIN stmt.constraints |->
                  IF stmt.constraints[i].kind = "PRIMARY KEY"
                  THEN PrimaryKeyNode(stmt.constraints[i].cols)
                  ELSE SchemaNode("ForeignKey", <<>>)])

----------------------------------------------------------------------------
(* The schema generator and the schema parser run one after the other:     *)
(* generate_sql on a list of model types, then create_models_from_sql on   *)
(* the statements it wrote.                                                *)

\* Longest list of model types handed to generate_sql.
MaxTypes == 2

TypeLists == SeqsUpTo(ModelKeys, MaxTypes)

NoGen == [op |-> "none", models |-> <<>>, sql |-> Ok(<<>>), parsed |-> Ok(<<>>)]

\* sql = generate_sql(models, database_type)
GenerateSql(models) ==
    /\ gen.op = "none"
    /\ gen' = [NoGen EXCEPT !.op = "generate_sql", !.models = models,
                            !.sql = generate_sql(models)]
    /\ UNCHANGED <<db, call, scopes, view>>

\* create_models_from_sql(sql.split(';\n\n'))
CreateModels ==
    /\ gen.op = "generate_sql"
    /\ gen.sql.err = None
    /\ gen' = [gen EXCEPT !.op = "create_models_from_sql",
                          !.parsed = create_models_from_sql(Map(gen.sql.val, parse_one))]
    /\ UNCHANGED <<db, call, scopes, view>>

\* The caller moves on to other model types.
Forget ==
    /\ gen.op # "none"
    /\ gen' = NoGen
    /\ UNCHANGED <<db, call, scopes, view>>

InitSchema ==
    /\ db = EmptyDb
    /\ call = NoCall
    /\ scopes = Idle
    /\ gen = NoGen
    /\ view = Idle

NextSchema ==
    \/ \E models \in TypeLists : GenerateSql(models)
    \/ CreateModels
    \/ Forget

SpecSchema == InitSchema /\ [][NextSchema]_vars

\* generate_sql returned: gen.sql.val[i] is the CREATE TABLE of gen.models[i]
Generated == gen.op # "none" /\ gen.sql.err = None

\* The position of the CREATE TABLE statement of model type `key`, or 0
StatementOf(key) ==
    IF InSeq(key, gen.models) THEN ColIndex(gen.models, key) ELSE 0

\* The name of the table generate_sql creates for a referenced model type
ReferencedTable(key) ==
    IF StatementOf(key) # 0 THEN gen.sql.val[StatementOf(key)].name
    ELSE gen_get_table_name(Models[key])

\* The SQL type of a column of the referenced model's own table
ReferencedType(key, name) ==
    IF StatementOf(key) # 0
    THEN LET cols == gen.sql.val[StatementOf(key)].columns
         IN  cols[CHOOSE c \in DOMAIN cols : cols[c].name = name].type
    ELSE translate_type(FieldOf(Models[key], name).type).val

\* The names {ReferencedTable}_{pk} of the foreign-key columns to `key`
ForeignKeyColumns(key) ==
    [k \in DOMAIN Models[key].id |-> ReferencedTable(key) \o <<"_">> \o Models[key].id[k]]

\* C7: in every statement generate_sql returns, each nested-model field is
\* replaced by one column per primary-key field of the referenced model,
\* named {ReferencedTable}_{field} and typed as that field's own column, and
\* the statement holds FOREIGN KEY (those columns) REFERENCES
\* ReferencedTable(the primary-key fields); no column bears the nested
\* field's own name.
C7_ForeignKeys ==
    Generated =>
        \A i \in DOMAIN gen.models :
            \A j \in DOMAIN Models[gen.models[i]].fields :
                LET field == Models[gen.models[i]].fields[j]
                    stmt == gen.sql.val[i]
                IN  is_model(field) =>
                      /\ Models[field.type].has_id
                      /\ \A k \in DOMAIN Models[field.type].id :
                            \E c \in DOMAIN stmt.columns :
                                /\ stmt.columns[c].name = ForeignKeyColumns(field.type)[k]
                                /\ stmt.columns[c].type
                                       = ReferencedType(field.type, Models[field.type].id[k])
                      /\ \A c \in DOMAIN stmt.columns : stmt.columns[c].name # field.name
                      /\ \E c \in DOMAIN stmt.constraints :
                            stmt.constraints[c]
                                = ForeignKey(ForeignKeyColumns(field.type),
                                             ReferencedTable(field.type),
                                             Models[field.type].id)

\* generate_sql has returned the statements of Pair and of Ledger, which
\* refers to Pair by its two-field primary key
C7_Witness ==
    /\ Generated
    /\ gen.models = <<"Pair", "Ledger">>
    /\ Len(gen.sql.val[2].columns) = 3

\* What a model type says of its table: the table's name, the columns with
\* type and nullability (a nested model standing for its foreign-key
\* columns) and the primary key
Declared(m) ==
    [table |-> get_table_name(m),
     fields |-> UNION {
         IF is_model(m.fields[j])
         THEN {<<get_table_name(Models[m.fields[j].type]) \o <<"_">>
                     \o Models[m.fields[j].type].id[k],
                 FieldOf(Models[m.fields[j].type], Models[m.fields[j].type].id[k]).type,
                 FALSE>> : k \in DOMAIN Models[m.fields[j].type].id}
         ELSE {<<m.fields[j].name, m.fields[j].type, m.fields[j].optional>>} :
         j \in DOMAIN m.fields},
     pk |-> Range(m.id)]

\* The same of a class create_models_from_sql wrote
Described(code) ==
    [table |-> code.query_name,
     fields |-> {<<code.fields[j][1], code.fields[j][2].typ, code.fields[j][2].optional>> :
                    j \in DOMAIN code.fields},
     pk |-> {code.fields[j][1] : j \in {x \in DOMAIN code.fields :
                                           code.fields[x][2].primary_key}}]

\* Every nested model of the listed model types is listed and has a primary
\* key of plain fields
Resolvable(models) ==
    \A i \in DOMAIN models : \A j \in DOMAIN Models[models[i]].fields :
        is_model(Models[models[i]].fields[j]) =>
            /\ InSeq(Models[models[i]].fields[j].type, models)
            /\ Models[Models[models[i]].fields[j].type].has_id

\* C8: parsing the statements generate_sql wrote for a list of model types
\* with resolvable foreign keys gives classes that say of their tables what
\* the model types said: the same table names, columns, types, nullability
\* and primary keys, in any order.
C8_RoundTrip ==
    (gen.op = "create_models_from_sql" /\ Resolvable(gen.models)) =>
        /\ gen.parsed.err = None
        /\ {Described(gen.parsed.val[i]) : i \in DOMAIN gen.parsed.val}
               = {Declared(Models[gen.models[i]]) : i \in DOMAIN gen.models}

----------------------------------------------------------------------------
(* The schema parser at work: create_models_from_sql parses the CREATE     *)
(* TABLE statements first, keeping their columns in model_specs, then the  *)
(* CREATE VIEW statements.  view.specs is model_specs, view.stmt the       *)
(* statement parsed last and view.out what parsing it returned or raised.  *)

NoView == [specs |-> <<>>, op |-> "none", stmt |-> <<>>, out |-> Ok(<<>>)]

\* CONSTRAINT name PRIMARY KEY CLUSTERED (cols ASC): a PrimaryKeyColumnConstraint
\* followed by the clustered columns, which are Column nodes
NamedClustered(cols) ==
    ConstraintNode(<<"c">>, <<SchemaNode("PrimaryKeyColumnConstraint", <<>>),
                             SchemaNode("ClusteredColumnConstraint", cols)>>)

\* CONSTRAINT name PRIMARY KEY (cols): a PrimaryKey node under the constraint
NamedPlain(cols) == ConstraintNode(<<"c">>, <<PrimaryKeyNode(cols)>>)

\* CONSTRAINT name CHECK (col > 0)
NamedCheck(cols) == ConstraintNode(<<"c">>, <<SchemaNode("CheckColumnConstraint", cols)>>)

\* The table-level parts of the CREATE TABLE statements parsed
TableLevels ==
    {<<>>, <<PrimaryKeyNode(<<<<"x">>>>)>>, <<PrimaryKeyNode(<<<<"x">>, <<"y">>>>)>>,
     <<NamedClustered(<<<<"x">>>>)>>, <<NamedPlain(<<<<"y">>>>)>>,
     <<NamedCheck(<<<<"x">>>>)>>, <<SchemaNode("UniqueColumnConstraint", <<<<"y">>>>)>>}

\* CREATE TABLE P (x INT ..., y TEXT ..., ...)
TableP(x, y, level) ==
    Create("TABLE", <<"P">>,
           <<ColumnDef(<<"x">>, "INT", x), ColumnDef(<<"y">>, "TEXT", y)>> \o level)

\* The statements handed to parse_create_table: every combination of column
\* constraints and table-level parts, a table with a hidden row column, one
\* with a type the mapping lacks, and a statement that is no CREATE
TableStatements ==
    {TableP(x, y, level) :
        x \in {<<>>, <<NotNull>>, <<Null>>, <<InlinePk>>, <<NotNull, InlinePk>>},
        y \in {<<>>, <<NotNull>>, <<Null>>},
        level \in TableLevels}
    \cup {TableP(<<NotNull>>, <<HiddenRow>>, <<>>),
          Create("TABLE", <<"P">>, <<ColumnDef(<<"x">>, "GEOGRAPHY", <<>>)>>),
          [node |-> "Select"]}

\* The tables the views select from
ViewTables ==
    {TableP(x, y, <<>>) : x \in {<<NotNull>>, <<Null>>, <<InlinePk>>},
                          y \in {<<>>, <<NotNull>>}}
    \cup {Create("TABLE", <<"B">>,
                 <<ColumnDef(<<"x">>, "INT", <<NotNull>>), ColumnDef(<<"y">>, "TEXT", y)>>) :
             y \in {<<NotNull>>, <<Null>>}}

\* The output expressions of the views, for a base table and a joined table
\* addressed as p and b
Outputs(p, b) ==
    {<<ColumnNode(p, <<"x">>), ColumnNode(b, <<"y">>)>>,
     <<ColumnNode(p, <<"y">>),
       AliasNode(CoalesceNode(ColumnNode(b, <<"y">>), <<LiteralNode>>), <<"z">>)>>,
     <<ColumnNode(b, <<"x">>), CoalesceNode(ColumnNode(b, <<"y">>), <<NullNode>>)>>,
     <<AliasNode(CoalesceNode(ColumnNode(b, <<"y">>), <<ColumnNode(p, <<"y">>)>>), <<"z">>)>>,
     <<AliasNode(ColumnNode(p, <<"x">>), <<"z">>), ColumnNode(b, <<"x">>)>>,
     <<ColumnNode(<<>>, <<"x">>)>>,
     <<FuncNode>>,
     <<CoalesceNode(NullNode, <<ColumnNode(b, <<"y">>)>>)>>}

\* CREATE VIEW v AS SELECT ... FROM P [p] <side> JOIN B [b] | P b
Views ==
    UNION {{CreateView(<<"v">>, Select(from, <<JoinNode(side, this)>>, outputs)) :
              outputs \in Outputs(alias_or_name(from), alias_or_name(this))} :
           from \in {TableRef(<<"P">>, <<>>), TableRef(<<"P">>, <<"p">>)},
           side \in {"LEFT", "RIGHT", "FULL", ""},
           this \in {TableRef(<<"B">>, <<>>), TableRef(<<"B">>, <<"b">>),
                     TableRef(<<"P">>, <<"b">>)}}

\* parse_create_table has returned or raised r
TableParsed(r, stmt) ==
    view' = [specs |-> IF r.err = None
                       THEN WithTable(view.specs, r.val.name, r.val.column_defs)
                       ELSE view.specs,
             op |-> "parse_create_table", stmt |-> stmt, out |-> r]

\* create_models_from_sql, lines 245-248: one CREATE TABLE is parsed
CreateTable(stmt) ==
    /\ view.op # "parse_create_view"
    /\ TableParsed(parse_create_table(stmt), stmt)
    /\ UNCHANGED <<db, call, scopes, gen>>

\* create_models_from_sql, lines 263-264: one CREATE VIEW is parsed
CreateViewModel(stmt) ==
    /\ view' = [view EXCEPT !.op = "parse_create_view", !.stmt = stmt,
                            !.out = parse_create_view(stmt, view.specs)]
    /\ UNCHANGED <<db, call, scopes, gen>>

InitView ==
    /\ db = EmptyDb
    /\ call = NoCall
    /\ scopes = Idle
    /\ gen = Idle
    /\ view = NoView

NextTable == \E stmt \in TableStatements : CreateTable(stmt)

SpecTable == InitView /\ [][NextTable]_vars

NextView ==
    \/ \E stmt \in ViewTables : CreateTable(stmt)
    \/ \E stmt \in Views : CreateViewModel(stmt)

SpecView == InitView /\ [][NextView]_vars

\* The column an output expression is sourced from: the column itself, the
\* aliased expression's, or that of the first argument of a COALESCE
RECURSIVE SourceOf(_)
SourceOf(expr) ==
    CASE expr.node = "Column" -> expr
      [] expr.node \in {"Alias", "Coalesce"} -> SourceOf(expr.this)
      [] OTHER -> ColumnNode(<<>>, <<>>)

\* The output expression is, under its alias if any, a COALESCE with a
\* literal among its fallbacks
RECURSIVE NonNullCoalesce(_)
NonNullCoalesce(expr) ==
    CASE expr.node = "Alias" -> NonNullCoalesce(expr.this)
      [] expr.node = "Coalesce" ->
            \E i \in DOMAIN expr.expressions : expr.expressions[i].node = "Literal"
      [] OTHER -> FALSE

\* A view SELECT ... FROM P [p] LEFT JOIN B [b] over parsed tables has been parsed
LeftJoinParsed ==
    /\ view.op = "parse_create_view"
    /\ view.out.err = None
    /\ Len(view.stmt.expression.joins) = 1
    /\ view.stmt.expression.joins[1].side = "LEFT"

\* C9: in the model of a view SELECT ... FROM P [p] LEFT JOIN B [b], every
\* field sourced from B is Optional unless it is a COALESCE with a non-null
\* fallback, and every field sourced from P is Optional exactly when P's
\* column is.
C9_LeftJoin ==
    LeftJoinParsed =>
        \A k \in DOMAIN view.out.val.column_defs :
            LET source == SourceOf(view.stmt.expression.expressions[k])
                P == view.stmt.expression.from
                B == view.stmt.expression.joins[1].this
                field == view.out.val.column_defs[k][2]
            IN  /\ (/\ source.table = alias_or_name(B)
                    /\ ~NonNullCoalesce(view.stmt.expression.expressions[k])) =>
                      field.optional
                /\ source.table = alias_or_name(P) =>
                      (field.optional
                          <=> column_type(view.specs[P.name], source.name).optional)

\* The column is declared primary key: inline, in a table-level PRIMARY KEY
\* (...), or in a named constraint that is a PRIMARY KEY, in either form
DeclaredPrimaryKey(stmt, name) ==
    \E i \in DOMAIN stmt.expressions :
        LET expr == stmt.expressions[i]
        IN  \/ /\ expr.node = "ColumnDef"
               /\ expr.this = name
               /\ InSeq(InlinePk, expr.constraints)
            \/ /\ expr.node = "PrimaryKey"
               /\ InSeq(name, expr.expressions)
            \/ /\ expr.node = "Constraint"
               /\ \/ \E k \in DOMAIN expr.expressions :
                        /\ expr.expressions[k].node = "PrimaryKey"
                        /\ InSeq(name, expr.expressions[k].expressions)
                  \/ /\ \E k \in DOMAIN expr.expressions :
                           expr.expressions[k].node = "PrimaryKeyColumnConstraint"
                     /\ \E k \in DOMAIN expr.expressions :
                           /\ expr.expressions[k].node = "ClusteredColumnConstraint"
                           /\ InSeq(name, expr.expressions[k].columns)

\* C10: parse_create_table marks a column primary key exactly when the
\* column has an inline PRIMARY KEY or is named in a table-level PRIMARY KEY
\* (...), unnamed or named by CONSTRAINT.
C10_PrimaryKey ==
    (view.op = "parse_create_table" /\ view.out.err = None) =>
        \A k \in DOMAIN view.out.val.column_defs :
            view.out.val.column_defs[k][2].primary_key
                <=> DeclaredPrimaryKey(view.stmt, view.out.val.column_defs[k][1])

----------------------------------------------------------------------------
(* The query builder beside the schema generator: generate_sql on a list   *)
(* of model types, build_query on a model type of the same catalog.        *)

NoQuery ==
    [op |-> "none", models |-> <<>>, sql |-> Ok(<<>>), key |-> "",
     query |-> Ok(Query(<<>>, <<>>, <<>>))]

\* sql = generate_sql(models, database_type)
QuerySchema(models) ==
    /\ gen.op = "none"
    /\ gen' = [NoQuery EXCEPT !.op = "generate_sql", !.models = models,
                              !.sql = generate_sql(models)]
    /\ UNCHANGED <<db, call, scopes, view>>

\* query = build_query(model_type)
BuildQuery(key) ==
    /\ gen.op \in {"none", "generate_sql"}
    /\ gen' = [gen EXCEPT !.op = "build_query", !.key = key,
                          !.query = build_query(Models[key])]
    /\ UNCHANGED <<db, call, scopes, view>>

\* The caller moves on to other model types.
ForgetQuery ==
    /\ gen.op # "none"
    /\ gen' = NoQuery
    /\ UNCHANGED <<db, call, scopes, view>>

InitQuery ==
    /\ db = EmptyDb
    /\ call = NoCall
    /\ scopes = Idle
    /\ gen = NoQuery
    /\ view = Idle

NextQuery ==
    \/ \E models \in TypeLists : QuerySchema(models)
    \/ \E key \in ModelKeys : BuildQuery(key)
    \/ ForgetQuery

SpecQuery == InitQuery /\ [][NextQuery]_vars

\* The model types nested under a model type, itself included
RECURSIVE Nested(_)
Nested(key) ==
    {key} \cup UNION {Nested(Models[key].fields[j].type) :
                         j \in {x \in DOMAIN Models[key].fields :
                                   is_model(Models[key].fields[x])}}

\* The nested-model fields of those model types: <<model type, field>>
Edges(key) ==
    UNION {{<<n, Models[n].fields[j]>> :
               j \in {x \in DOMAIN Models[n].fields : is_model(Models[n].fields[x])}} :
           n \in Nested(key)}

\* The plain fields of those model types, each under its table's name
PlainColumns(key) ==
    UNION {{<<get_table_name(Models[n]), Models[n].fields[j].name>> :
               j \in {x \in DOMAIN Models[n].fields : ~is_model(Models[n].fields[x])}} :
           n \in Nested(key)}

\* C11: build_query(M), for M whose nested model types all have a primary
\* key, selects exactly the plain fields of M and of the model types nested
\* under it, each under its own table's name, from M's table, with one inner
\* join per nested-model field, ON parent.{NestedTable}_{pk} =
\* NestedTable.{pk} for every primary-key field, each join's parent table
\* being the FROM table or the table of an earlier join.
C11_BuildQuery ==
    (/\ gen.op = "build_query"
     /\ \A e \in Edges(gen.key) : Models[e[2].type].has_id) =>
        /\ gen.query.err = None
        /\ gen.query.val.from = get_table_name(Models[gen.key])
        /\ Range(gen.query.val.selects) = PlainColumns(gen.key)
        /\ Len(gen.query.val.selects) = Cardinality(PlainColumns(gen.key))
        /\ Len(gen.query.val.joins) = Cardinality(Edges(gen.key))
        /\ Range(gen.query.val.joins)
              = {[table |-> get_table_name(Models[e[2].type]),
                  kind |-> "inner",
                  on |-> [k \in DOMAIN Models[e[2].type].id |->
                            <<get_table_name(Models[e[1]]),
                              get_table_name(Models[e[2].type]) \o <<"_">>
                                  \o Models[e[2].type].id[k],
                              get_table_name(Models[e[2].type]),
                              Models[e[2].type].id[k]>>]] : e \in Edges(gen.key)}
        /\ \A k \in DOMAIN gen.query.val.joins :
              \A c \in DOMAIN gen.query.val.joins[k].on :
                  gen.query.val.joins[k].on[c][1]
                      \in {gen.query.val.from}
                          \cup {gen.query.val.joins[j].table : j \in 1..(k - 1)}

\* build_query has returned the query of a model type nested two levels deep
C11_Witness ==
    /\ gen.op = "build_query"
    /\ gen.key = "Bank"
    /\ gen.query.err = None
    /\ Len(gen.query.val.joins) = 2
    /\ Len(gen.query.val.selects) = 5

----------------------------------------------------------------------------
(* utils.py: transform.  A value is a scalar, a dict (the sequence of its  *)
(* <<key, value>> items in insertion order), a model instance (its type    *)
(* and the items of its fields) or the NOT_FOUND sentinel.                 *)

Scalar(v) == [kind |-> "scalar", type |-> "", v |-> v, items |-> <<>>]
Dict(items) == [kind |-> "dict", type |-> "", v |-> 0, items |-> items]
Instance(type, items) == [kind |-> "model", type |-> type, v |-> 0, items |-> items]
NOT_FOUND == [kind |-> "NOT_FOUND", type |-> "", v |-> 0, items |-> <<>>]

\* s.lower()
lower(s) == [i \in DOMAIN s |-> Recase(s[i], Uppers, Lowers)]

RECURSIVE model_dump(_)
\* model.model_dump(): nested instances become dicts
model_dump(model) ==
    Dict([i \in DOMAIN model.items |->
            <<model.items[i][1],
              IF model.items[i][2].kind = "model"
              THEN model_dump(model.items[i][2]) ELSE model.items[i][2]>>])

\* lookup_underscored, lines 61-64, given the results of the recursive calls
lookup_found(results) ==
    IF results.err # None THEN results
    ELSE IF Len(Filter(results.val, LAMBDA r : r # NOT_FOUND)) = 0 THEN Ok(NOT_FOUND)
    ELSE IF Len(Filter(results.val, LAMBDA r : r # NOT_FOUND)) > 1
    THEN Raise("ValueError: ambiguous")
    ELSE Ok(Filter(results.val, LAMBDA r : r # NOT_FOUND)[1])

\* matches = [name for name, field in source.items() if target_name.startswith(name)]
lookup_matches(source, target_name) ==
    Filter(source.items, LAMBDA item : startswith(target_name, item[1]))

RECURSIVE lookup_underscored(_, _)
\* lookup_underscored(source, target_name); source.keys() raises on a source
\* that is no dict
lookup_underscored(source, target_name) ==
    IF source.kind # "dict" THEN Raise("AttributeError: keys")
    ELSE IF DictHas(source.items, target_name) THEN Ok(DictGet(source.items, target_name))
    ELSE lookup_found(AllOk(Map(lookup_matches(source, target_name), LAMBDA item :
            lookup_underscored(item[2], removeprefix(target_name, item[1] \o Underscore)))))

\* field_prefix = target_field.annotation.__name__.lower() + '_'
field_prefix(field) == lower(Models[field.type].name) \o Underscore

\* field_source = {k.removeprefix(field_prefix): v for k, v in data.items()
\*                 if k.startswith(field_prefix)}
field_source(data, prefix) ==
    Map(Filter(data, LAMBDA item : startswith(item[1], prefix)),
        LAMBDA item : <<removeprefix(item[1], prefix), item[2]>>)

\* The state of transform_dict's loop: the result so far and the errors
Partial(err, result, errors) == [err |-> err, result |-> result, errors |-> errors]

\* transform_dict, lines 80-83, given what the recursive call returned
transform_sub(part, name, sub) ==
    IF sub.err # None THEN Partial(sub.err, part.result, part.errors)
    ELSE Partial(None, DictSet(part.result, name, Dict(sub.val)), part.errors)

\* transform_dict, lines 85-87, given what lookup_underscored returned
transform_lookup(part, name, found) ==
    IF found.err # None THEN Partial(found.err, part.result, part.errors)
    ELSE Partial(None, DictSet(part.result, name, found.val),
                 part.errors + (IF found.val = NOT_FOUND THEN 1 ELSE 0))

RECURSIVE transform_dict(_, _)

\* transform_dict, the body of the loop over target.model_fields
transform_field(data, field, part) ==
    IF DictHas(data, field.name)
    THEN Partial(None, DictSet(part.result, field.name, DictGet(data, field.name)),
                 part.errors)
    ELSE IF is_model(field)
    THEN transform_sub(part, field.name,
             transform_dict(field_source(data, field_prefix(field)), Models[field.type]))
    ELSE transform_lookup(part, field.name, lookup_underscored(Dict(data), field.name))

RECURSIVE transform_from(_, _, _, _)
\* transform_dict, the loop over target.model_fields from field i on, and
\* lines 88-92
transform_from(data, target, i, part) ==
    IF part.err # None THEN Raise(part.err)
    ELSE IF i > Len(target.fields)
    THEN (IF part.errors = 1 THEN Raise("KeyError")
          ELSE IF part.errors > 1 THEN Raise("ExceptionGroup")
          ELSE Ok(part.result))
    ELSE transform_from(data, target, i + 1, transform_field(data, target.fields[i], part))

\* transform_dict(data, target): data and the result are the items of a dict
transform_dict(data, target) == transform_from(data, target, 1, Partial(None, <<>>, 0))

\* model(**data): every field given, a scalar for a plain field and an
\* instance of the annotated class for a nested one; other keys are ignored
validate(data, key) ==
    IF \A i \in DOMAIN Models[key].fields :
          /\ DictHas(data, Models[key].fields[i].name)
          /\ IF is_model(Models[key].fields[i])
             THEN /\ DictGet(data, Models[key].fields[i].name).kind = "model"
                  /\ DictGet(data, Models[key].fields[i].name).type
                        = Models[key].fields[i].type
             ELSE DictGet(data, Models[key].fields[i].name).kind = "scalar"
    THEN Ok(Instance(key, [i \in DOMAIN Models[key].fields |->
                              <<Models[key].fields[i].name,
                                DictGet(data, Models[key].fields[i].name)>>]))
    ELSE Raise("ValidationError")

\* dict_to_model, lines 100-103, given what the recursive call returned or raised
convert_sub(part, name, sub) ==
    IF sub.err # None THEN Partial(None, part.result, part.errors \o <<sub.err>>)
    ELSE Partial(None, DictSet(part.result, name, sub.val), part.errors)

RECURSIVE dict_to_model(_, _)

\* dict_to_model, the body of the loop over model.model_fields; data[target_name]
\* raises KeyError inside the try when the key is missing
convert_field(field, part) ==
    IF ~is_model(field) THEN part
    ELSE IF ~DictHas(part.result, field.name)
    THEN Partial(None, part.result, part.errors \o <<"KeyError">>)
    ELSE convert_sub(part, field.name,
                     dict_to_model(DictGet(part.result, field.name), field.type))

RECURSIVE convert_from(_, _, _)
\* dict_to_model, the loop from field i on, and lines 104-108
convert_from(key, i, part) ==
    IF i > Len(Models[key].fields)
    THEN (IF Len(part.errors) = 1 THEN Raise(part.errors[1])
          ELSE IF Len(part.errors) > 1 THEN Raise("ExceptionGroup")
          ELSE validate(part.result, key))
    ELSE convert_from(key, i + 1, convert_field(Models[key].fields[i], part))

\* dict_to_model(data, model).  On data that is no dict, data[target_name]
\* raises TypeError inside the try for every nested field, and model(**data)
\* raises TypeError when there is none.
dict_to_model(data, key) ==
    IF data.kind # "dict"
    THEN (IF Len(Filter(Models[key].fields, is_model)) > 1
          THEN Raise("ExceptionGroup") ELSE Raise("TypeError"))
    ELSE convert_from(key, 1, Partial(None, data.items, <<>>))

\* transform, lines 116-117, given what transform_dict returned
transform_built(target_dict, key) ==
    IF target_dict.err # None THEN target_dict
    ELSE dict_to_model(Dict(target_dict.val), key)

\* transform(model, target)
transform(model, key) ==
    transform_built(transform_dict(model_dump(model).items, Models[key]), key)

----------------------------------------------------------------------------
(* transform at work: a model instance is transformed to a shape of the    *)
(* same data, and the result to another.                                   *)

\* The shapes of the same data
Families == {{"Nested", "Flat", "Mixed"}, {"Owner", "OwnerFlat"}, {"Short", "ShortFlat"}}
Family(key) == CHOOSE F \in Families : key \in F

RECURSIVE InstancesOf(_)
RECURSIVE ItemsFrom(_, _)
\* The items of the fields from field i on, in every choice of values
ItemsFrom(fields, i) ==
    IF i > Len(fields) THEN {<<>>}
    ELSE {<<<<fields[i].name, v>>>> \o rest :
             v \in (IF is_model(fields[i]) THEN InstancesOf(fields[i].type)
                    ELSE {Scalar(x) : x \in Values}),
             rest \in ItemsFrom(fields, i + 1)}

\* The instances of a model type
InstancesOf(key) == {Instance(key, items) : items \in ItemsFrom(Models[key].fields, 1)}

NoTransform == [op |-> "none", x |-> NOT_FOUND, path |-> <<>>, out |-> Ok(NOT_FOUND)]

\* out = transform(x, target)
Transform(x, target) ==
    /\ gen.op = "none"
    /\ gen' = [op |-> "transform", x |-> x, path |-> <<target>>, out |-> transform(x, target)]
    /\ UNCHANGED <<db, call, scopes, view>>

\* out = transform(out, target) on the result of the first transform
TransformAgain(target) ==
    /\ gen.op = "transform"
    /\ Len(gen.path) = 1
    /\ gen.out.err = None
    /\ target \in Family(gen.x.type)
    /\ gen' = [gen EXCEPT !.path = Append(@, target), !.out = transform(gen.out.val, target)]
    /\ UNCHANGED <<db, call, scopes, view>>

\* The caller moves on to another instance.
ForgetTransform ==
    /\ gen.op # "none"
    /\ gen' = NoTransform
    /\ UNCHANGED <<db, call, scopes, view>>

InitTransform ==
    /\ db = EmptyDb
    /\ call = NoCall
    /\ scopes = Idle
    /\ gen = NoTransform
    /\ view = Idle

NextTransform ==
    \/ \E F \in Families : \E key \in F : \E x \in InstancesOf(key) : \E target \in F :
          Transform(x, target)
    \/ \E target \in UNION Families : TransformAgain(target)
    \/ ForgetTransform

SpecTransform == InitTransform /\ [][NextTransform]_vars

\* C12: for an instance x and shapes A, B of the same data, transform(x,
\* type(x)) is x, transform(x, B) returns, and transform(transform(x, B), A)
\* is transform(x, A), which returns.
C12_Transform ==
    gen.op = "transform" =>
        /\ gen.out.err = None
        /\ gen.path = <<gen.x.type>> => gen.out.val = gen.x
        /\ Len(gen.path) = 2 => gen.out = transform(gen.x, gen.path[2])

----------------------------------------------------------------------------
(* The phases of write_dict_models, on the calls of SpecWrite.             *)

\* The columns a write call compares on: compare_on, or the type's __id__
ComparedOn(w) ==
    IF w.compare_on = NoAttr THEN Models[w.models[1].type].id ELSE w.compare_on[1]

\* C13: when write runs with should_delete true and finds keys in the table
\* that the collection lacks, it executes the DELETE and no row whose
\* comparison key is absent from the collection remains in the table.
C13_Deletes ==
    (/\ call.op = "write"
     /\ call.err = None
     /\ call.flags.delete
     /\ "to_delete" \in call.computed
     /\ call.to_delete # {}) =>
        /\ InSeq("delete", call.stmts)
        /\ KeysOf(db[WrittenTable(call.models)], ComparedOn(call)) \subseteq call.in_memory

SetUpFor(d, type) ==
    \E models \in SetupLists :
        /\ InSeq(type, models)
        /\ setup_database(EmptyDb, models).err = None
        /\ DOMAIN d = DOMAIN setup_database(EmptyDb, models).db

\* The model type a write or get_where call is about
CalledOn(w) == IF w.op = "write" THEN w.models[1].type ELSE w.types[1]

\* C15: a write of objects of one model type, or a get_where without
\* constraints, issued on the tables setup_database created for model types
\* including that one, addresses a table and columns that exist: no
\* statement of the call fails on a missing table or column.
C15_SharedNames ==
    (/\ \/ /\ call.op = "write"
           /\ call.models # <<>>
           /\ \A i \in DOMAIN call.models : call.models[i].type = call.models[1].type
        \/ /\ call.op = "get_where"
           /\ call.constraints = <<>>
     /\ SetUpFor(call.before, CalledOn(call))) =>
        call.err # "OperationalError"

----------------------------------------------------------------------------
(* get_optional_tables_and_aliases at work on FROM/JOIN chains.            *)

\* Longest chain of joins after the FROM table.
MaxJoins == 2

Sides == {"", "LEFT", "RIGHT", "FULL"}

\* SELECT ... FROM P [p] (side JOIN B [b] | side JOIN C c)*
Chains ==
    {Select(base, joins, <<>>) :
        base \in {TableRef(<<"P">>, <<>>), TableRef(<<"P">>, <<"p">>)},
        joins \in SeqsUpTo({JoinNode(side, this) :
                               side \in Sides,
                               this \in {TableRef(<<"B">>, <<>>), TableRef(<<"B">>, <<"b">>),
                                         TableRef(<<"C">>, <<"c">>)}},
                           MaxJoins)}

\* optional = get_optional_tables_and_aliases(select)
OptionalTables(select) ==
    /\ view' = [specs |-> <<>>, op |-> "get_optional_tables_and_aliases",
                stmt |-> select, out |-> Ok(get_optional_tables_and_aliases(select))]
    /\ UNCHANGED <<db, call, scopes, gen>>

InitJoins ==
    /\ db = EmptyDb
    /\ call = NoCall
    /\ scopes = Idle
    /\ gen = Idle
    /\ view = [specs |-> <<>>, op |-> "none", stmt |-> Select(TableRef(<<>>, <<>>), <<>>, <<>>),
               out |-> Ok({})]

NextJoins == \E select \in Chains : OptionalTables(select)

SpecJoins == InitJoins /\ [][NextJoins]_vars

\* The table names and aliases of a query
QueryNames(select) ==
    name_and_alias(select.from)
    \cup UNION {name_and_alias(select.joins[j].this) : j \in DOMAIN select.joins}

\* The join-nullability rule: the right-hand table of every LEFT JOIN, what
\* is to the left of every RIGHT JOIN, and everything if there is a FULL JOIN
RuleOptional(select) ==
    IF \E j \in DOMAIN select.joins : select.joins[j].side = "FULL"
    THEN QueryNames(select)
    ELSE UNION {
        CASE select.joins[j].side = "LEFT" -> name_and_alias(select.joins[j].this)
          [] select.joins[j].side = "RIGHT" ->
                name_and_alias(select.from)
                \cup UNION {name_and_alias(select.joins[k].this) : k \in 1..(j - 1)}
          [] OTHER -> {} : j \in DOMAIN select.joins}

\* C16: a table name or alias of the query is in the set
\* get_optional_tables_and_aliases returns exactly when the join-nullability
\* rule makes it optional: it is the right-hand table of a LEFT JOIN, it
\* stands to the left of a RIGHT JOIN (the FROM table and its alias
\* included), or the query has a FULL JOIN.
C16_OptionalTables ==
    view.op = "get_optional_tables_and_aliases" =>
        \A name \in QueryNames(view.stmt) :
            name \in view.out.val <=> name \in RuleOptional(view.stmt)

\* C17: in a parsed view, an output column that is a COALESCE with a
\* non-null (literal) fallback is not Optional, whether its first argument
\* is nullable by declaration or through a join.
C17_Coalesce ==
    (view.op = "parse_create_view" /\ view.out.err = None) =>
        \A k \in DOMAIN view.out.val.column_defs :
            NonNullCoalesce(view.stmt.expression.expressions[k]) =>
                ~view.out.val.column_defs[k][2].optional

\* The definition of a parsed column in the CREATE TABLE statement
DefinitionOf(stmt, name) ==
    stmt.expressions[CHOOSE i \in DOMAIN stmt.expressions :
                        /\ stmt.expressions[i].node = "ColumnDef"
                        /\ stmt.expressions[i].this = name]

\* parse_create_table has returned the columns of a CREATE TABLE
TableColumns == view.op = "parse_create_table" /\ view.out.err = None

\* The original statement of C18: a column is Optional exactly when it lacks
\* a NOT NULL constraint, be it declared NULL or neither.
C18_Original ==
    TableColumns =>
        \A k \in DOMAIN view.out.val.column_defs :
            view.out.val.column_defs[k][2].optional
                <=> ~InSeq(NotNull,
                           DefinitionOf(view.stmt, view.out.val.column_defs[k][1]).constraints)

\* C18: parse_create_table marks a column Optional exactly when the column
\* carries an explicit NULL; a column with NOT NULL, or with neither NULL
\* nor NOT NULL, is not Optional.
C18_Nullable ==
    TableColumns =>
        \A k \in DOMAIN view.out.val.column_defs :
            view.out.val.column_defs[k][2].optional
                <=> InSeq(Null,
                          DefinitionOf(view.stmt, view.out.val.column_defs[k][1]).constraints)

\* A parsed table with a column declared NULL, rendered Optional, and a
\* column with neither NULL nor NOT NULL, rendered not Optional
C18_Witness ==
    /\ TableColumns
    /\ Len(view.out.val.column_defs) = 2
    /\ DefinitionOf(view.stmt, <<"x">>).constraints = <<Null>>
    /\ DefinitionOf(view.stmt, <<"y">>).constraints = <<>>
    /\ view.out.val.column_defs[1][2].optional
    /\ ~view.out.val.column_defs[2][2].optional

\* The SQL type of a plain field, declared optional or not
ColumnType(field) ==
    IF field.optional
    THEN [int |-> "integer", str |-> "text", float |-> "real"][field.type]
    ELSE [int |-> "integer not null", str |-> "text not null",
          float |-> "real not null"][field.type]

\* C19: in every statement generate_sql returns, each plain field has a
\* column of its name with the mapped SQL type, NOT NULL unless the field is
\* declared optional, and without NOT NULL if it is.
C19_NotNull ==
    Generated =>
        \A i \in DOMAIN gen.models :
            \A j \in DOMAIN Models[gen.models[i]].fields :
                ~is_model(Models[gen.models[i]].fields[j]) =>
                    \E c \in DOMAIN gen.sql.val[i].columns :
                        gen.sql.val[i].columns[c]
                            = Column(Models[gen.models[i]].fields[j].name,
                                     ColumnType(Models[gen.models[i]].fields[j]))

\* C20: in every statement generate_sql returns, every column the PRIMARY
\* KEY (...) constraint names is a column of that statement; a primary-key
\* field that is a nested model is named by its foreign-key columns.
C20_PrimaryKeyColumns ==
    Generated =>
        \A i \in DOMAIN gen.models :
            \A c \in DOMAIN gen.sql.val[i].constraints :
                gen.sql.val[i].constraints[c].kind = "PRIMARY KEY" =>
                    \A k \in DOMAIN gen.sql.val[i].constraints[c].cols :
                        \E n \in DOMAIN gen.sql.val[i].columns :
                            gen.sql.val[i].columns[n].name
                                = gen.sql.val[i].constraints[c].cols[k]

----------------------------------------------------------------------------
(* read_write.py: the cursor context manager.  scopes[i] follows one       *)
(* `with cursor(db_name) as c:` statement: where it is (pc), the state of  *)
(* the connection and of the cursor, and the exception in flight (None:    *)
(* there is none).  Scopes run side by side.                               *)

Scope(pc, conn, cur, exc) == [pc |-> pc, conn |-> conn, cur |-> cur, exc |-> exc]

NewScope == Scope("connect", "none", "none", None)

\* line 16: conn = sqlite3.connect(db_name) returns
connected(s) == [s EXCEPT !.pc = "cursor", !.conn = "open"]

\* line 16: sqlite3.connect raises; the with statement is left at once
connect_raised(s) == [s EXCEPT !.pc = "left", !.exc = "OperationalError"]

\* lines 17-19: c = conn.cursor(); yield c: the body of the with statement runs
yielded(s) == [s EXCEPT !.pc = "body", !.cur = "open"]

\* line 19: the body ends, normally (exc = None) or by raising exc
body_over(s, exc) == [s EXCEPT !.pc = "close cursor", !.exc = exc]

\* line 22: c.close() returns
cursor_closed(s) == [s EXCEPT !.pc = "close connection", !.cur = "closed"]

\* A c.close() whose failure ends the scope, as without the inner finally
cursor_close_escapes(s) == [s EXCEPT !.pc = "left", !.exc = "ProgrammingError"]

\* line 22: c.close() raises (sqlite3 checks the thread and the connection
\* before it marks the cursor closed); the inner finally still runs.
cursor_close_raised(s) == [s EXCEPT !.pc = "close connection", !.exc = "ProgrammingError"]

\* line 24: conn.close(); the exception in flight, if any, leaves the scope
connection_closed(s) == [s EXCEPT !.pc = "left", !.conn = "closed"]

\* scopes with scope i moved on
Step(i, s) ==
    /\ scopes' = [scopes EXCEPT ![i] = s]
    /\ UNCHANGED <<db, call, gen, view>>

Connect(i) == scopes[i].pc = "connect" /\ Step(i, connected(scopes[i]))

ConnectRaises(i) == scopes[i].pc = "connect" /\ Step(i, connect_raised(scopes[i]))

Yield(i) == scopes[i].pc = "cursor" /\ Step(i, yielded(scopes[i]))

BodyReturns(i) == scopes[i].pc = "body" /\ Step(i, body_over(scopes[i], None))

BodyRaises(i) == scopes[i].pc = "body" /\ Step(i, body_over(scopes[i], "Error"))

CloseCursor(i) == scopes[i].pc = "close cursor" /\ Step(i, cursor_closed(scopes[i]))

CloseCursorRaises(i) ==
    scopes[i].pc = "close cursor" /\ Step(i, cursor_close_raised(scopes[i]))

CloseConnection(i) ==
    scopes[i].pc = "close connection" /\ Step(i, connection_closed(scopes[i]))

InitCursor ==
    /\ db = EmptyDb
    /\ call = NoCall
    /\ scopes = [i \in 1..NScopes |-> NewScope]
    /\ gen = Idle
    /\ view = Idle

NextCursor ==
    \E i \in 1..NScopes :
        \/ Connect(i)
        \/ ConnectRaises(i)
        \/ Yield(i)
        \/ BodyReturns(i)
        \/ BodyRaises(i)
        \/ CloseCursor(i)
        \/ CloseCursorRaises(i)
        \/ CloseConnection(i)

SpecCursor == InitCursor /\ [][NextCursor]_vars

============================================================================
